---- MODULE Spec2Model ----
(***************************************************************************)
(* Model of moneyforward_analyzer: the CSV ingestion and summary engine    *)
(* (csv_parser.py).                                                        *)
(*                                                                         *)
(* Text is modelled as a sequence of characters, one character per        *)
(* element.  The characters outside ASCII are written with these names:    *)
(*    "YEN"   U+00A5  half-width yen sign                                  *)
(*    "FWYEN" U+FFE5  full-width yen sign                                  *)
(*    "EN"    U+5186  the word yen                                         *)
(*    "NEN" "GATSU" "NICHI"   U+5E74 U+6708 U+65E5 (year, month, day)      *)
(*    "MARU" "OMARU"  U+25CB U+25EF (circle marks)                         *)
(* and the kanji of the column labels are written by their readings.      *)
(* A missing cell (pandas NaN) is the value NA, distinct from every text. *)
(*                                                                         *)
(* An intermediate result that the code keeps in a local variable and     *)
(* reads more than once is passed on as an operator argument, so that it  *)
(* is computed once.                                                       *)
(***************************************************************************)
EXTENDS Integers, Sequences, FiniteSets, TLC

VARIABLES
    file,            \* the CSV file at csv_path, as pandas reads it
    _df,             \* CSVParser._df: None or <<table>>
    _transactions,   \* CSVParser._transactions: None or <<list>>
    _parse_errors,   \* CSVParser._parse_errors: list of row errors
    read_csv_calls,  \* the encodings pd.read_csv was called with in the last parse
    ret,             \* outcome of the last call on the parser
    dt_in,           \* input of the date round trip: [date, fmt]
    dt_out,          \* its outcome
    am_in,           \* input of the amount round trip: [n, glyph, minus]
    am_out,          \* its outcome
    run,             \* run_analysis: its arguments, its position, the calls it made
    send             \* LineNotifier._send_with_retry: its locals and its position

vars == <<file, _df, _transactions, _parse_errors, read_csv_calls, ret, dt_in, dt_out, am_in, am_out,
         run, send>>

parserVars == <<file, _df, _transactions, _parse_errors, read_csv_calls, ret>>
dateVars == <<dt_in, dt_out>>
amountVars == <<am_in, am_out>>

----------------------------------------------------------------------------
(* Optional values and sequences *)

None == <<>>
Some(x) == <<x>>

Range(s) == {s[i] : i \in 1..Len(s)}

RECURSIVE SumSeq(_)
SumSeq(s) == IF s = <<>> THEN 0 ELSE Head(s) + SumSeq(Tail(s))

Abs(n) == IF n < 0 THEN -n ELSE n

----------------------------------------------------------------------------
(* Text *)

NA == [na |-> TRUE, str |-> <<>>]
Cell(s) == [na |-> FALSE, str |-> s]

\* pd.isna(value)
isna(c) == c.na

Whitespace == {" ", "\t"}

\* str.strip()
RECURSIVE lstrip(_)
lstrip(s) ==
    IF s # <<>> /\ Head(s) \in Whitespace THEN lstrip(Tail(s)) ELSE s

RECURSIVE rstrip(_)
rstrip(s) ==
    IF s # <<>> /\ s[Len(s)] \in Whitespace
    THEN rstrip(SubSeq(s, 1, Len(s) - 1)) ELSE s

strip(s) == rstrip(lstrip(s))

\* str.replace(ch, "")
RECURSIVE remove(_, _)
remove(s, ch) ==
    IF s = <<>> THEN <<>>
    ELSE IF Head(s) = ch THEN remove(Tail(s), ch)
    ELSE <<Head(s)>> \o remove(Tail(s), ch)

\* str.split(ch)[0]
RECURSIVE split_first(_, _)
split_first(s, ch) ==
    IF s = <<>> \/ Head(s) = ch THEN <<>>
    ELSE <<Head(s)>> \o split_first(Tail(s), ch)

Digit == {"0", "1", "2", "3", "4", "5", "6", "7", "8", "9"}

DigitVal(c) ==
    CASE c = "0" -> 0 [] c = "1" -> 1 [] c = "2" -> 2 [] c = "3" -> 3
      [] c = "4" -> 4 [] c = "5" -> 5 [] c = "6" -> 6 [] c = "7" -> 7
      [] c = "8" -> 8 [] c = "9" -> 9

DigitChar(n) == <<"0", "1", "2", "3", "4", "5", "6", "7", "8", "9">>[n + 1]

AllDigits(s) == \A i \in 1..Len(s) : s[i] \in Digit

\* value of a digit string
RECURSIVE DigitsVal(_)
DigitsVal(s) ==
    IF s = <<>> THEN 0
    ELSE 10 * DigitsVal(SubSeq(s, 1, Len(s) - 1)) + DigitVal(s[Len(s)])

\* str(n) for n >= 0
RECURSIVE NatStr(_)
NatStr(n) ==
    IF n < 10 THEN <<DigitChar(n)>>
    ELSE NatStr(n \div 10) \o <<DigitChar(n % 10)>>

\* zero padding to width w, as %02d / %04d
RECURSIVE ZeroPad(_, _)
ZeroPad(s, w) == IF Len(s) >= w THEN s ELSE ZeroPad(<<"0">> \o s, w)

----------------------------------------------------------------------------
(* datetime: a calendar date [y, m, d]; the time of day is always 00:00 *)

IsLeap(y) == (y % 4 = 0 /\ y % 100 # 0) \/ y % 400 = 0

DaysInMonth(y, m) ==
    IF m = 2 THEN (IF IsLeap(y) THEN 29 ELSE 28)
    ELSE IF m \in {4, 6, 9, 11} THEN 30 ELSE 31

\* datetime(y, m, d) accepts exactly these
ValidDate(y, m, d) ==
    /\ y \in 1..9999
    /\ m \in 1..12
    /\ d \in 1..DaysInMonth(y, m)

\* date order (min / max / sorted key)
DateLE(a, b) ==
    \/ a.y < b.y
    \/ a.y = b.y /\ a.m < b.m
    \/ a.y = b.y /\ a.m = b.m /\ a.d <= b.d

Directive == {"%Y", "%m", "%d"}

\* Does the text t match the regular expression of directive dir
\* (_strptime.py: %Y \d\d\d\d, %m 1[0-2]|0[1-9]|[1-9],
\*  %d 3[0-1]|[1-2]\d|0[1-9]|[1-9]| [1-9]) ?
DirectiveMatches(dir, t) ==
    CASE dir = "%Y" -> Len(t) = 4 /\ AllDigits(t)
      [] dir = "%m" -> /\ Len(t) \in {1, 2}
                       /\ AllDigits(t)
                       /\ DigitsVal(t) \in 1..12
      [] dir = "%d" -> \/ /\ Len(t) \in {1, 2}
                          /\ AllDigits(t)
                          /\ DigitsVal(t) \in 1..31
                       \/ /\ Len(t) = 2
                          /\ t[1] = " "
                          /\ t[2] \in Digit \ {"0"}

DirectiveVal(t) == DigitsVal(remove(t, " "))

\* the widths a directive can take, longest alternative first
DirectiveWidths(dir) == IF dir = "%Y" THEN <<4>> ELSE <<2, 1>>

NoMatch == [ok |-> FALSE, y |-> 1900, m |-> 1, d |-> 1]

set_field(acc, dir, val) ==
    CASE dir = "%Y" -> [acc EXCEPT !.y = val]
      [] dir = "%m" -> [acc EXCEPT !.m = val]
      [] dir = "%d" -> [acc EXCEPT !.d = val]

\* The regular-expression match of strptime: text s from position i against
\* the format tokens fmt from position j, backtracking over the widths.
RECURSIVE strptime_match(_, _, _, _, _)
RECURSIVE strptime_widths(_, _, _, _, _, _)

\* the directive fmt[j] read from the w characters of s at i, then the rest
match_directive(s, i, fmt, j, acc, w) ==
    IF i + w - 1 <= Len(s) /\ DirectiveMatches(fmt[j], SubSeq(s, i, i + w - 1))
    THEN strptime_match(s, i + w, fmt, j + 1,
             set_field(acc, fmt[j], DirectiveVal(SubSeq(s, i, i + w - 1))))
    ELSE NoMatch

\* the match with the first width if there is one, else the other widths
or_other_widths(hit, s, i, fmt, j, acc, ws) ==
    IF hit.ok THEN hit ELSE strptime_widths(s, i, fmt, j, acc, Tail(ws))

strptime_widths(s, i, fmt, j, acc, ws) ==
    IF ws = <<>> THEN NoMatch
    ELSE or_other_widths(match_directive(s, i, fmt, j, acc, Head(ws)),
                         s, i, fmt, j, acc, ws)

strptime_match(s, i, fmt, j, acc) ==
    IF j > Len(fmt)
    THEN (IF i > Len(s) THEN acc ELSE NoMatch)   \* unconverted data remains
    ELSE IF fmt[j] \in Directive
    THEN strptime_widths(s, i, fmt, j, acc, DirectiveWidths(fmt[j]))
    ELSE IF i <= Len(s) /\ s[i] = fmt[j]
    THEN strptime_match(s, i + 1, fmt, j + 1, acc)
    ELSE NoMatch

Failed == [ok |-> FALSE, date |-> [y |-> 1, m |-> 1, d |-> 1]]
Parsed(y, m, d) == [ok |-> TRUE, date |-> [y |-> y, m |-> m, d |-> d]]

\* datetime(y, m, d), ok = FALSE standing for ValueError
datetime(y, m, d) == IF ValidDate(y, m, d) THEN Parsed(y, m, d) ELSE Failed

datetime_of_match(r) == IF r.ok THEN datetime(r.y, r.m, r.d) ELSE Failed

\* datetime.strptime(s, fmt): ok = FALSE stands for ValueError
strptime(s, fmt) ==
    datetime_of_match(strptime_match(s, 1, fmt, 1, [NoMatch EXCEPT !.ok = TRUE]))

\* datetime.strftime(fmt), for the directives %Y %m %d
RECURSIVE strftime(_, _)
strftime(date, fmt) ==
    IF fmt = <<>> THEN <<>>
    ELSE (CASE Head(fmt) = "%Y" -> ZeroPad(NatStr(date.y), 4)
            [] Head(fmt) = "%m" -> ZeroPad(NatStr(date.m), 2)
            [] Head(fmt) = "%d" -> ZeroPad(NatStr(date.d), 2)
            [] OTHER -> <<Head(fmt)>>)
         \o strftime(date, Tail(fmt))

\* mutant: day-first tried before month-first
formats_day_first ==
    << <<"%Y", "/", "%m", "/", "%d">>,
       <<"%Y", "-", "%m", "-", "%d">>,
       <<"%Y", "NEN", "%m", "GATSU", "%d", "NICHI">>,
       <<"%d", "/", "%m", "/", "%Y">>,
       <<"%m", "/", "%d", "/", "%Y">> >>

\* the formats of _parse_date, in the order tried
formats ==
    << <<"%Y", "/", "%m", "/", "%d">>,              \* 2024/01/15
       <<"%Y", "-", "%m", "-", "%d">>,              \* 2024-01-15
       <<"%Y", "NEN", "%m", "GATSU", "%d", "NICHI">>, \* 2024年01月15日
       <<"%m", "/", "%d", "/", "%Y">>,              \* 01/15/2024
       <<"%d", "/", "%m", "/", "%Y">> >>            \* 15/01/2024

\* NaT, the "not a time" value of pandas: no calendar date
NaT == [y |-> 0, m |-> 0, d |-> 0]

\* the texts pandas reads as NaT
nat_strings ==
    { <<"N", "a", "T">>, <<"n", "a", "t">>, <<"N", "A", "T">>,
      <<"n", "a", "n">>, <<"N", "a", "N">>, <<"N", "A", "N">> }

\* pd.to_datetime(date_str).to_pydatetime(): the permissive parser of pandas,
\* modelled on the texts this model feeds it.  It reads the compact form
\* YYYYMMDD; a text of nat_strings it reads as NaT without raising, and
\* to_pydatetime() hands NaT on; every other text that reaches it (letters,
\* an impossible calendar date, a month above 12 in both slash orders) it
\* rejects.
pd_to_datetime(s) ==
    IF s \in nat_strings THEN [ok |-> TRUE, date |-> NaT]
    ELSE IF Len(s) = 8 /\ AllDigits(s)
    THEN datetime(DigitsVal(SubSeq(s, 1, 4)), DigitsVal(SubSeq(s, 5, 6)),
                  DigitsVal(SubSeq(s, 7, 8)))
    ELSE Failed

\* the loop over formats: the first format that parses wins
RECURSIVE first_format(_, _)

or_next_format(r, s, fmts) ==
    IF r.ok THEN r ELSE first_format(s, Tail(fmts))

first_format(s, fmts) ==
    IF fmts = <<>> THEN Failed
    ELSE or_next_format(strptime(s, Head(fmts)), s, fmts)

\* the fallback after the loop
or_fallback(r, s) == IF r.ok THEN r ELSE pd_to_datetime(s)

\* CSVParser._parse_date: ok = FALSE stands for ValueError
_parse_date(date_str) ==
    or_fallback(first_format(strip(date_str), formats), strip(date_str))

----------------------------------------------------------------------------
(* Amounts *)

IntFailed == [ok |-> FALSE, val |-> 0]
IntParsed(n) == [ok |-> TRUE, val |-> n]

\* decimal digits, single underscores allowed between them
IsDecimal(body) ==
    /\ body # <<>>
    /\ body[1] \in Digit
    /\ body[Len(body)] \in Digit
    /\ \A i \in 1..Len(body) : body[i] \in Digit \cup {"_"}
    /\ \A i \in 1..(Len(body) - 1) : ~(body[i] = "_" /\ body[i + 1] = "_")

int_of_body(body, negative) ==
    IF ~IsDecimal(body) THEN IntFailed
    ELSE IF negative THEN IntParsed(-DigitsVal(remove(body, "_")))
    ELSE IntParsed(DigitsVal(remove(body, "_")))

int_of_trimmed(t) ==
    IF t # <<>> /\ Head(t) \in {"-", "+"}
    THEN int_of_body(Tail(t), Head(t) = "-")
    ELSE int_of_body(t, FALSE)

\* Python int(text): surrounding whitespace, an optional sign, then decimal
\* digits; ok = FALSE stands for ValueError
py_int(text) == int_of_trimmed(strip(text))

\* mutant: the full-width yen sign is left in
clean_amount_half_width_only(s) ==
    remove(remove(remove(remove(s, "YEN"), ","), "EN"), " ")

\* the currency symbols and separators removed from an amount
clean_amount(s) ==
    remove(remove(remove(remove(remove(s, "YEN"), ","), "EN"), "FWYEN"), " ")

\* the decimal fraction is cut off
truncate_fraction(cleaned) ==
    IF "." \in Range(cleaned) THEN split_first(cleaned, ".") ELSE cleaned

\* CSVParser._parse_amount: ok = FALSE stands for ValueError
amount_of_text(s) ==
    IF s = <<>> THEN IntParsed(0)
    ELSE py_int(truncate_fraction(clean_amount(s)))

_parse_amount(amount_str) ==
    IF isna(amount_str) THEN IntParsed(0)
    ELSE amount_of_text(strip(amount_str.str))

\* digits in groups of three
RECURSIVE group3(_)
group3(s) ==
    IF Len(s) <= 3 THEN s
    ELSE group3(SubSeq(s, 1, Len(s) - 3)) \o <<",">> \o SubSeq(s, Len(s) - 2, Len(s))

\* format(n, ","): the sign, then the digits in groups of three
comma_format(n) ==
    IF n < 0 THEN <<"-">> \o group3(NatStr(-n)) ELSE group3(NatStr(n))

----------------------------------------------------------------------------
(* Booleans and strings *)

Upper == <<"A", "B", "C", "D", "E", "F", "G", "H", "I", "J", "K", "L", "M",
           "N", "O", "P", "Q", "R", "S", "T", "U", "V", "W", "X", "Y", "Z">>
Lower == <<"a", "b", "c", "d", "e", "f", "g", "h", "i", "j", "k", "l", "m",
           "n", "o", "p", "q", "r", "s", "t", "u", "v", "w", "x", "y", "z">>

\* str.lower()
lower(s) ==
    [i \in 1..Len(s) |->
        IF s[i] \in Range(Upper)
        THEN Lower[CHOOSE k \in 1..Len(Upper) : Upper[k] = s[i]]
        ELSE s[i]]

\* mutant: the words and the circles are not read as true
TrueTexts_one_only == { <<"1">> }

\* the texts read as true
TrueTexts ==
    { <<"1">>, <<"t", "r", "u", "e">>, <<"y", "e", "s">>, <<"MARU">>, <<"OMARU">> }

\* CSVParser._parse_boolean (a cell is never a Python bool: dtype=str)
_parse_boolean(value) ==
    IF isna(value) THEN FALSE
    ELSE lower(strip(value.str)) \in TrueTexts

\* CSVParser._safe_string
_safe_string(value) ==
    IF isna(value) THEN <<>> ELSE strip(value.str)

----------------------------------------------------------------------------
(* Transaction *)

nan == <<"n", "a", "n">>
Unknown == <<"(", "FU", "MEI", ")">>          \* (不明)
Uncategorized == <<"MI", "BUN", "RUI">>       \* 未分類

\* the default applied to an empty text field by __post_init__
or_default(text, default) ==
    IF text = <<>> \/ text = nan THEN default ELSE text

\* Transaction(...), with __post_init__ applied
Transaction(is_calculated, date, description, amount, institution, major_category, minor_category, memo, is_transfer, transaction_id) ==
    [ is_calculated  |-> is_calculated,
      date           |-> date,
      description    |-> or_default(description, Unknown),
      amount         |-> amount,
      institution    |-> institution,
      major_category |-> or_default(major_category, Uncategorized),
      minor_category |-> or_default(minor_category, Uncategorized),
      memo           |-> memo,
      is_transfer    |-> is_transfer,
      transaction_id |-> transaction_id ]

----------------------------------------------------------------------------
(* Columns *)

L_is_calculated  == <<"kei", "san", "tai", "shou">>            \* 計算対象
L_date           == <<"hi", "zuke">>                           \* 日付
L_description    == <<"nai", "you">>                           \* 内容
L_amount         == <<"kin", "gaku", "(", "EN", ")">>          \* 金額（円）
L_institution    == <<"ho", "yuu", "kin", "yuu", "ki", "kan">> \* 保有金融機関
L_major_category == <<"dai", "kou", "moku">>                   \* 大項目
L_minor_category == <<"chuu", "kou", "moku">>                  \* 中項目
L_memo           == <<"me", "mo">>                             \* メモ
L_is_transfer    == <<"furi", "kae">>                          \* 振替
L_transaction_id == <<"I", "D">>                               \* ID

\* the keys of COLUMN_MAPPING, in the order of the export
COLUMN_MAPPING ==
    << L_is_calculated, L_date, L_description, L_amount, L_institution,
       L_major_category, L_minor_category, L_memo, L_is_transfer,
       L_transaction_id >>

\* mutant: the legacy encodings come first
SUPPORTED_ENCODINGS_legacy_first == <<"cp932", "shift_jis", "utf-8", "utf-8-sig">>

SUPPORTED_ENCODINGS == <<"utf-8", "utf-8-sig", "shift_jis", "cp932">>

\* row.get(label, default)
get(row, label, default) ==
    IF label \in DOMAIN row THEN row[label] ELSE default

\* s[:2]
prefix2(s) == SubSeq(s, 1, IF Len(s) < 2 THEN Len(s) ELSE 2)

----------------------------------------------------------------------------
(* Exceptions: raised = FALSE is a normal return *)

NoError == [kind |-> "none"]

\* CSVParser._validate_columns: the CSVParseError it raises, or NoError
_validate_columns(df) ==
    LET expected_cols == Range(COLUMN_MAPPING)
        actual_cols == Range(df.columns)
        missing_cols == expected_cols \ actual_cols
        suggestions ==
            { <<missing, actual>> \in missing_cols \X actual_cols :
                  prefix2(missing) = prefix2(actual) }
    IN IF df.rows = <<>> \/ df.columns = <<>>           \* df.empty
       THEN [kind |-> "CSV file contains no rows"]
       ELSE IF missing_cols # {}
       THEN [kind |-> "Missing required columns",
             missing |-> missing_cols,
             suggestions |-> suggestions,
             actual |-> actual_cols]
       ELSE NoError

\* mutant: dropna(how="any"), a row is kept when no cell is missing
HasValue_in_every_cell(r) == \A c \in DOMAIN r.cells : ~isna(r.cells[c])

\* dropna(how="all") keeps a row with at least one value
HasValue(r) == \E c \in DOMAIN r.cells : ~isna(r.cells[c])

strip_cell(c) == IF isna(c) THEN c ELSE Cell(strip(c.str))

\* the cells of a row under the stripped column labels
strip_row(r) ==
    [ idx |-> r.idx,
      cells |-> [ c \in {strip(k) : k \in DOMAIN r.cells} |->
                    strip_cell(r.cells[CHOOSE k \in DOMAIN r.cells : strip(k) = c]) ] ]

\* CSVParser._preprocess_dataframe
_preprocess_dataframe(df) ==
    LET kept == SelectSeq(df.rows, HasValue)
    IN [ columns |-> [i \in 1..Len(df.columns) |-> strip(df.columns[i])],
         rows |-> [i \in 1..Len(kept) |-> strip_row(kept[i])] ]

----------------------------------------------------------------------------
(* Rows *)

RowFailed(reason) == [ok |-> FALSE, reason |-> reason]
RowParsed(t) == [ok |-> TRUE, tx |-> t]

unknown_id(row_idx) ==
    <<"u", "n", "k", "n", "o", "w", "n", "_">> \o NatStr(row_idx)

\* the row once date and amount are parsed
row_with_amount(row, row_idx, date, amount) ==
    IF ~amount.ok THEN RowFailed("Invalid amount")
    ELSE RowParsed(Transaction(
             _parse_boolean(get(row, L_is_calculated, Cell(<<"0">>))),
             date,
             _safe_string(get(row, L_description, Cell(<<>>))),
             amount.val,
             _safe_string(get(row, L_institution, Cell(<<>>))),
             _safe_string(get(row, L_major_category, Cell(<<>>))),
             _safe_string(get(row, L_minor_category, Cell(<<>>))),
             _safe_string(get(row, L_memo, Cell(<<>>))),
             _parse_boolean(get(row, L_is_transfer, Cell(<<"0">>))),
             _safe_string(get(row, L_transaction_id, Cell(unknown_id(row_idx))))))

\* the row once the date is parsed
row_with_date(row, row_idx, date) ==
    IF ~date.ok THEN RowFailed("Invalid date format")
    ELSE row_with_amount(row, row_idx, date.date,
                         _parse_amount(get(row, L_amount, Cell(<<"0">>))))

\* CSVParser._parse_row: ok = FALSE stands for the ValueError it raises
_parse_row(row, row_idx) ==
    IF isna(get(row, L_date, Cell(<<>>)))
       \/ strip(get(row, L_date, Cell(<<>>)).str) = <<>>
    THEN RowFailed("Date is missing or empty")
    ELSE row_with_date(row, row_idx, _parse_date(get(row, L_date, Cell(<<>>)).str))

\* the loop of _convert_to_transactions over df.iterrows()
RECURSIVE convert_rows(_, _, _)

\* mutant: a converted row and a failed row go to the front of their lists
convert_row_prepending(r, rows, transactions, errors) ==
    IF r.ok
    THEN convert_rows(Tail(rows), <<r.tx>> \o transactions, errors)
    ELSE convert_rows(Tail(rows), transactions,
             <<[row |-> Head(rows).idx, reason |-> r.reason]>> \o errors)

\* one turn of the loop: r is what _parse_row gave for the first row
convert_row(r, rows, transactions, errors) ==
    IF r.ok
    THEN convert_rows(Tail(rows), Append(transactions, r.tx), errors)
    ELSE convert_rows(Tail(rows), transactions,
             Append(errors, [row |-> Head(rows).idx, reason |-> r.reason]))

convert_rows(rows, transactions, errors) ==
    IF rows = <<>> THEN [transactions |-> transactions, parse_errors |-> errors]
    ELSE convert_row(_parse_row(Head(rows).cells, Head(rows).idx),
                     rows, transactions, errors)

\* mutant: the batch fails as soon as one row failed
all_rows_failed_on_any_error(transactions, errors) ==
    errors # <<>>

\* mutant: the batch fails whenever no row was converted
all_rows_failed_on_no_transaction(transactions, errors) ==
    transactions = <<>>

\* the test that fails the whole batch
all_rows_failed(transactions, errors) ==
    transactions = <<>> /\ errors # <<>>

\* errors[:5]
first_five(errors) == SubSeq(errors, 1, IF Len(errors) < 5 THEN Len(errors) ELSE 5)

\* the end of _convert_to_transactions, after the loop
converted(c) ==
    IF all_rows_failed(c.transactions, c.parse_errors)
    THEN [raised |-> TRUE,
          error |-> [kind |-> "Failed to parse any transactions",
                     errors |-> first_five(c.parse_errors)],
          transactions |-> c.transactions,
          parse_errors |-> c.parse_errors]
    ELSE [raised |-> FALSE, error |-> NoError,
          transactions |-> c.transactions,
          parse_errors |-> c.parse_errors]

\* CSVParser._convert_to_transactions: the list it returns, the value it
\* leaves in self._parse_errors, and whether it raises CSVParseError
_convert_to_transactions(df) == converted(convert_rows(df.rows, <<>>, <<>>))

----------------------------------------------------------------------------
(* Reading the file.  f.reads[encoding] is what pd.read_csv gives under    *)
(* that encoding: None when it raises, <<table>> otherwise.                *)

RECURSIVE try_encodings(_, _, _)
try_encodings(f, encodings, tried) ==
    IF encodings = <<>> THEN [df |-> None, tried |-> tried]
    ELSE IF f.reads[Head(encodings)] # None
    THEN [df |-> f.reads[Head(encodings)], tried |-> Append(tried, Head(encodings))]
    ELSE try_encodings(f, Tail(encodings), Append(tried, Head(encodings)))

\* the end of the method: the table, or CSVParseError
read_result(r) ==
    IF r.df # None
    THEN [raised |-> FALSE, error |-> NoError, df |-> r.df[1], calls |-> r.tried]
    ELSE [raised |-> TRUE,
          error |-> [kind |-> "Could not decode CSV file",
                     tried |-> SUPPORTED_ENCODINGS],
          df |-> None, calls |-> r.tried]

\* CSVParser._read_csv_with_encoding_detection
_read_csv_with_encoding_detection(f) ==
    read_result(try_encodings(f, SUPPORTED_ENCODINGS, <<>>))

----------------------------------------------------------------------------
(* The parser.  self is [df, transactions, parse_errors]; a call gives    *)
(* [self, raised, error, value]: the parser after the call, whether the   *)
(* call raised CSVParseError, with which message, and what it returned.   *)

Raise(self, error) ==
    [self |-> self, raised |-> TRUE, error |-> error, value |-> None]
Return(self, value) ==
    [self |-> self, raised |-> FALSE, error |-> NoError, value |-> value]

\* what parse() leaves in the parser when _convert_to_transactions raises:
\* self._df was assigned before the conversion, self._parse_errors inside it
after_failed_conversion(self, df, conv) ==
    [self EXCEPT !.df = Some(df), !.parse_errors = conv.parse_errors]

\* parse, from "self._df = df" on
parse_converted(self, df, conv) ==
    IF conv.raised
    THEN Raise(after_failed_conversion(self, df, conv), conv.error)
    ELSE Return([self EXCEPT !.df = Some(df),
                              !.transactions = Some(conv.transactions),
                              !.parse_errors = conv.parse_errors],
                conv.transactions)

parse_preprocessed(self, df) ==
    parse_converted(self, df, _convert_to_transactions(df))

\* parse, from the column validation on
parse_validated(self, df, invalid) ==
    IF invalid # NoError THEN Raise(self, invalid)
    ELSE parse_preprocessed(self, _preprocess_dataframe(df))

\* parse, once the file is read
parse_read(self, read) ==
    IF read.raised THEN Raise(self, read.error)
    ELSE parse_validated(self, read.df, _validate_columns(read.df))

\* the parser with the calls of pd.read_csv noted
after_read(self, read) == [self EXCEPT !.read_csv_calls = read.calls]

parse_after_read(self, read) == parse_read(after_read(self, read), read)

\* CSVParser.parse
do_parse(self, f) == parse_after_read(self, _read_csv_with_encoding_detection(f))

----------------------------------------------------------------------------
(* Summary *)

\* mutant: transfers are counted
is_countable_with_transfers(t) == t.is_calculated

\* mutant: rows excluded from the calculation are counted
is_countable_when_excluded(t) == ~t.is_transfer

\* the rows that count: not a transfer, and marked as calculated
is_countable(t) == ~t.is_transfer /\ t.is_calculated

is_income(t) == t.amount > 0
is_expense(t) == t.amount < 0

amounts(ts) == [i \in 1..Len(ts) |-> ts[i].amount]

\* mutant: the amount replaces the sum of the category
add_to_category_overwriting(dict, category, amount) ==
    IF \E i \in 1..Len(dict) : dict[i][1] = category
    THEN [i \in 1..Len(dict) |->
            IF dict[i][1] = category THEN <<category, amount>> ELSE dict[i]]
    ELSE Append(dict, <<category, amount>>)

\* expense_by_category[category] = expense_by_category.get(category, 0) + amount
\* on a dict that keeps insertion order, as a list of <<category, amount>>
add_to_category(dict, category, amount) ==
    IF \E i \in 1..Len(dict) : dict[i][1] = category
    THEN [i \in 1..Len(dict) |->
            IF dict[i][1] = category
            THEN <<category, dict[i][2] + amount>> ELSE dict[i]]
    ELSE Append(dict, <<category, amount>>)

RECURSIVE group_expenses(_, _)
group_expenses(ts, dict) ==
    IF ts = <<>> THEN dict
    ELSE IF Head(ts).amount < 0
    THEN group_expenses(Tail(ts),
             add_to_category(dict,
                 IF Head(ts).major_category = <<>> THEN Uncategorized
                 ELSE Head(ts).major_category,
                 Abs(Head(ts).amount)))
    ELSE group_expenses(Tail(ts), dict)

\* mutant: an item goes before the items of the same amount
RECURSIVE insert_before_equal(_, _)
insert_before_equal(sorted, x) ==
    IF sorted = <<>> THEN <<x>>
    ELSE IF Head(sorted)[2] > x[2]
    THEN <<Head(sorted)>> \o insert_before_equal(Tail(sorted), x)
    ELSE <<x>> \o sorted

\* sorted(items, key=lambda x: x[1], reverse=True): stable, amount descending
RECURSIVE insert_by_amount(_, _)
insert_by_amount(sorted, x) ==
    IF sorted = <<>> THEN <<x>>
    ELSE IF Head(sorted)[2] >= x[2]
    THEN <<Head(sorted)>> \o insert_by_amount(Tail(sorted), x)
    ELSE <<x>> \o sorted

RECURSIVE sort_by_amount(_, _)
sort_by_amount(items, sorted) ==
    IF items = <<>> THEN sorted
    ELSE sort_by_amount(Tail(items), insert_by_amount(sorted, Head(items)))

\* mutant: the date of the first transaction is taken for the earliest
min_date_of_first(ts) == ts[1].date

min_date(ts) == CHOOSE d \in {ts[i].date : i \in 1..Len(ts)} :
                    \A i \in 1..Len(ts) : DateLE(d, ts[i].date)
max_date(ts) == CHOOSE d \in {ts[i].date : i \in 1..Len(ts)} :
                    \A i \in 1..Len(ts) : DateLE(ts[i].date, d)

iso_format == <<"%Y", "-", "%m", "-", "%d">>

\* mutant: the summary reports no errors
count_errors_as_none(parse_errors) == 0

\* "parse_errors": len(self._parse_errors)
count_errors(parse_errors) == Len(parse_errors)

\* mutant: the empty summary carries a date range of empty texts
empty_summary_dated(parse_errors) ==
    [ total_transactions  |-> 0,
      date_range          |-> Some([start |-> <<>>, end |-> <<>>]),
      total_income        |-> 0,
      total_expense       |-> 0,
      net_cashflow        |-> 0,
      expense_by_category |-> <<>>,
      institutions        |-> {},
      parse_errors        |-> Len(parse_errors) ]

\* the summary of an empty transaction list
empty_summary(parse_errors) ==
    [ total_transactions  |-> 0,
      date_range          |-> None,
      total_income        |-> 0,
      total_expense       |-> 0,
      net_cashflow        |-> 0,
      expense_by_category |-> <<>>,
      institutions        |-> {},
      parse_errors        |-> count_errors(parse_errors) ]

\* "total_expense": abs(expense), of the signed sum of the expenses
total_expense(expense) == Abs(expense)

\* mutant: the expenses are taken as a positive number
net_cashflow_adding_expense(income, expense) == income + Abs(expense)

\* "net_cashflow": income + expense
net_cashflow(income, expense) == income + expense

\* the non-empty summary, from the sums over the countable rows
summary_of(transactions, parse_errors, non_transfer, income, expense) ==
    [ total_transactions  |-> Len(transactions),
      date_range          |->
          Some([start |-> strftime(min_date(transactions), iso_format),
                end   |-> strftime(max_date(transactions), iso_format)]),
      total_income        |-> income,
      total_expense       |-> total_expense(expense),
      net_cashflow        |-> net_cashflow(income, expense),
      expense_by_category |->
          sort_by_amount(group_expenses(non_transfer, <<>>), <<>>),
      institutions        |->
          {transactions[i].institution : i \in 1..Len(transactions)} \ {<<>>},
      parse_errors        |-> count_errors(parse_errors) ]

summary_of_countable(transactions, parse_errors, non_transfer) ==
    summary_of(transactions, parse_errors, non_transfer,
               SumSeq(amounts(SelectSeq(non_transfer, is_income))),
               SumSeq(amounts(SelectSeq(non_transfer, is_expense))))

\* the body of get_summary once self._transactions is set
summarize(transactions, parse_errors) ==
    IF transactions = <<>> THEN empty_summary(parse_errors)
    ELSE summary_of_countable(transactions, parse_errors,
                              SelectSeq(transactions, is_countable))

\* mutant: the file is parsed again on every call
ensure_transactions_always(self, f) == do_parse(self, f)

\* "if self._transactions is None: self.parse()"
ensure_transactions(self, f) ==
    IF self.transactions = None THEN do_parse(self, f) ELSE Return(self, None)

\* "if self._df is None: self.parse()"
ensure_df(self, f) ==
    IF self.df = None THEN do_parse(self, f) ELSE Return(self, None)

\* get_summary after the parse p it may have needed
summary_after(p) ==
    IF p.raised THEN p
    ELSE Return(p.self, summarize(p.self.transactions[1], p.self.parse_errors))

\* CSVParser.get_summary
do_get_summary(self, f) == summary_after(ensure_transactions(self, f))

\* CSVParser.get_parse_errors
do_get_parse_errors(self) == Return(self, self.parse_errors)

dataframe_after(p) ==
    IF p.raised THEN p ELSE Return(p.self, p.self.df[1])

\* CSVParser.get_dataframe
do_get_dataframe(self, f) == dataframe_after(ensure_df(self, f))

\* DataFrame.to_csv(index=False): the header line, then a line per row with
\* a missing cell written as the empty text
to_csv(df) ==
    <<df.columns>> \o
    [i \in 1..Len(df.rows) |->
        [j \in 1..Len(df.columns) |->
            IF isna(df.rows[i].cells[df.columns[j]]) THEN <<>>
            ELSE df.rows[i].cells[df.columns[j]].str]]

csv_string_after(p) ==
    IF p.raised THEN p ELSE Return(p.self, to_csv(p.self.df[1]))

\* CSVParser.to_csv_string
do_to_csv_string(self, f) == csv_string_after(ensure_df(self, f))

----------------------------------------------------------------------------
(* Report.  A line is [label, args]: the fixed text of the line and the     *)
(* texts formatted into it.                                                *)

Line(label, args) == [label |-> label, args |-> args]

\* sorted(self._transactions, key=lambda t: t.date, reverse=True): stable
RECURSIVE insert_by_date(_, _)
insert_by_date(sorted, t) ==
    IF sorted = <<>> THEN <<t>>
    ELSE IF DateLE(t.date, Head(sorted).date)
    THEN <<Head(sorted)>> \o insert_by_date(Tail(sorted), t)
    ELSE <<t>> \o sorted

RECURSIVE sort_by_date(_, _)
sort_by_date(ts, sorted) ==
    IF ts = <<>> THEN sorted
    ELSE sort_by_date(Tail(ts), insert_by_date(sorted, Head(ts)))

RECENT_LIMIT == 20

\* [:RECENT_LIMIT]
\* a listing that is never cut: every transaction is recent
recent_slice_unbounded(ts) == ts

recent_slice(ts) ==
    SubSeq(ts, 1, IF Len(ts) < RECENT_LIMIT THEN Len(ts) ELSE RECENT_LIMIT)

\* the amount of a listed transaction
listing_amount(amount) ==
    IF amount >= 0 THEN <<"YEN">> \o comma_format(amount)
    ELSE <<"-", "YEN">> \o comma_format(Abs(amount))

\* a total of the overview: the glyph, then the number with its sign
overview_amount(amount) == <<"YEN">> \o comma_format(amount)

listing_line(t) ==
    Line("- {date} | {description} | {amount} | {major_category}",
         <<strftime(t.date, iso_format), t.description,
           listing_amount(t.amount), t.major_category>>)

listing(recent) == [i \in 1..Len(recent) |-> listing_line(recent[i])]

period_lines(date_range) ==
    IF date_range # None
    THEN <<Line("period: {start} - {end}", <<date_range[1].start, date_range[1].end>>)>>
    ELSE <<>>

error_lines(parse_errors) ==
    IF parse_errors > 0
    THEN <<Line("* {n} parse errors", <<NatStr(parse_errors)>>)>>
    ELSE <<>>

category_lines(expense_by_category) ==
    IF expense_by_category # <<>>
    THEN [i \in 1..Len(expense_by_category) |->
            Line("- {category}: {amount}",
                 <<expense_by_category[i][1],
                   overview_amount(expense_by_category[i][2])>>)]
    ELSE <<Line("- (no expense data)", <<>>)>>

\* the body of to_analysis_text from the summary on
render(summary, transactions) ==
    IF summary.total_transactions = 0
    THEN <<Line("# summary", <<>>), Line("", <<>>), Line("no data", <<>>)>>
    ELSE <<Line("# summary", <<>>), Line("", <<>>)>>
         \o period_lines(summary.date_range)
         \o <<Line("transactions: {n}", <<NatStr(summary.total_transactions)>>)>>
         \o error_lines(summary.parse_errors)
         \o <<Line("", <<>>),
              Line("## overview", <<>>),
              Line("- income: {amount}", <<overview_amount(summary.total_income)>>),
              Line("- expense: {amount}", <<overview_amount(summary.total_expense)>>),
              Line("- net: {amount}", <<overview_amount(summary.net_cashflow)>>),
              Line("", <<>>),
              Line("## expense by category", <<>>)>>
         \o category_lines(summary.expense_by_category)
         \o <<Line("", <<>>), Line("## recent transactions", <<>>)>>
         \o listing(recent_slice(sort_by_date(transactions, <<>>)))

\* to_analysis_text after its call q of get_summary
text_after_summary(q) ==
    IF q.raised THEN q
    ELSE Return(q.self, render(q.value, q.self.transactions[1]))

\* to_analysis_text after the parse p it may have needed
text_after(p, f) ==
    IF p.raised THEN p ELSE text_after_summary(do_get_summary(p.self, f))

\* CSVParser.to_analysis_text
do_to_analysis_text(self, f) == text_after(ensure_transactions(self, f), f)

----------------------------------------------------------------------------
(* The files the parser is run on *)

MaxRows == 2

\* the five ways a date is written in an export
WrittenFormats ==
    << <<"%Y", "/", "%m", "/", "%d">>,                \* YYYY/MM/DD
       <<"%Y", "-", "%m", "-", "%d">>,                \* YYYY-MM-DD
       <<"%Y", "NEN", "%m", "GATSU", "%d", "NICHI">>, \* YYYY年MM月DD日
       <<"%m", "/", "%d", "/", "%Y">>,                \* MM/DD/YYYY
       <<"%d", "/", "%m", "/", "%Y">> >>              \* DD/MM/YYYY

MonthFirst == WrittenFormats[4]
DayFirst == WrittenFormats[5]

T(text) == Cell(text)

D(y, m, d) == [y |-> y, m |-> m, d |-> d]

\* a data row over the ten columns, from its cells in the order of the export
Row(cells) ==
    [c \in Range(COLUMN_MAPPING) |->
        cells[CHOOSE i \in 1..Len(COLUMN_MAPPING) : COLUMN_MAPPING[i] = c]]

food == <<"f", "o", "o", "d">>
transport == <<"t", "r", "a", "i", "n">>
bank == <<"b", "a", "n", "k">>
card == <<"c", "a", "r", "d">>

RowChoices ==
    { \* an expense, written -¥500
      Row(<<T(<<"1">>), T(strftime(D(2024, 1, 15), WrittenFormats[1])), T(<<"l", "u", "n", "c", "h">>),
            T(<<"-", "YEN", "5", "0", "0">>), T(bank), T(food), T(<<"o", "u", "t">>),
            NA, T(<<"0">>), T(<<"a", "1">>)>>),
      \* an income, written ¥1,234
      Row(<<T(<<"1">>), T(strftime(D(2024, 1, 16), WrittenFormats[2])), T(<<"p", "a", "y">>),
            T(<<"YEN", "1", ",", "2", "3", "4">>), T(bank), T(<<"p", "a", "y">>), NA,
            NA, T(<<"0">>), T(<<"a", "2">>)>>),
      \* an expense of the same size in another category, without identifier
      Row(<<T(<<"MARU">>), T(strftime(D(2024, 1, 17), WrittenFormats[3])), T(<<"r", "a", "i", "l">>),
            T(<<"-", "5", "0", "0">>), T(card), T(transport), NA,
            NA, NA, NA>>),
      \* a transfer
      Row(<<T(<<"1">>), T(strftime(D(2024, 1, 14), WrittenFormats[1])), T(<<"m", "o", "v", "e">>),
            T(<<"-", "YEN", "1", ",", "2", "3", "4">>), T(bank), T(food), NA,
            NA, T(<<"1">>), T(<<"a", "4">>)>>),
      \* an incoming transfer
      Row(<<T(<<"1">>), T(strftime(D(2024, 1, 14), WrittenFormats[1])), T(<<"m", "o", "v", "e">>),
            T(<<"FWYEN", "1", ",", "2", "3", "4">>), T(card), NA, NA,
            NA, T(<<"Y", "e", "s">>), T(<<"a", "5">>)>>),
      \* a row excluded from the calculation, without description and category
      Row(<<T(<<"0">>), T(strftime(D(2024, 1, 18), WrittenFormats[4])), NA,
            T(<<"-", "3", "0", "0">>), NA, NA, NA,
            T(<<"m">>), T(<<"0">>), T(<<"a", "6">>)>>),
      \* an expense without category, padded with blanks, with a fraction
      Row(<<T(<<" ", "T", "R", "U", "E", " ">>), T(<<" ">> \o strftime(D(2023, 12, 31), WrittenFormats[5])),
            T(<<"f", "e", "e">>), T(<<" ", "-", "1", ",", "2", "3", "4", ".", "9", "EN", " ">>),
            T(bank), NA, NA, NA, T(<<"0">>), T(<<"a", "7">>)>>),
      \* a malformed date
      Row(<<T(<<"1">>), T(<<"a", "b", "c">>), T(<<"x">>),
            T(<<"-", "5", "0", "0">>), T(bank), T(food), NA,
            NA, T(<<"0">>), T(<<"a", "8">>)>>),
      \* an impossible calendar date
      Row(<<T(<<"1">>), T(<<"2", "0", "2", "3", "/", "0", "2", "/", "3", "0">>), T(<<"x">>),
            T(<<"1", "0", "0">>), T(bank), T(food), NA,
            NA, T(<<"0">>), T(<<"a", "9">>)>>),
      \* a malformed amount
      Row(<<T(<<"1">>), T(strftime(D(2024, 1, 15), WrittenFormats[1])), T(<<"x">>),
            T(<<"1", "2", "a">>), T(bank), T(food), NA,
            NA, T(<<"0">>), T(<<"b", "1">>)>>),
      \* an empty date next to other cells
      Row(<<T(<<"1">>), NA, T(<<"x">>),
            T(<<"-", "5", "0", "0">>), T(bank), T(food), NA,
            NA, T(<<"0">>), T(<<"b", "2">>)>>),
      \* a fully blank row
      Row(<<NA, NA, NA, NA, NA, NA, NA, NA, NA, NA>>) }

\* the sequences over S of length at most n
RECURSIVE SeqsUpTo(_, _)
SeqsUpTo(S, n) ==
    IF n = 0 THEN {<<>>}
    ELSE LET shorter == SeqsUpTo(S, n - 1)
         IN shorter \cup {Append(q, x) : q \in {r \in shorter : Len(r) = n - 1}, x \in S}

L_extra == <<"t", "a", "g">>

\* the table pandas reads: the columns and the data rows, numbered from 0;
\* a row has a cell for every column of the header
Table(header, rows) ==
    [ columns |-> header,
      rows |-> [i \in 1..Len(rows) |->
                  [ idx |-> i - 1,
                    cells |-> [c \in Range(header) |->
                                 IF strip(c) \in DOMAIN rows[i] THEN rows[i][strip(c)]
                                 ELSE T(<<"x">>)] ]] ]

\* a file that reads to the table under the encodings encs alone
File(table, encs) ==
    [ reads |-> [e \in Range(SUPPORTED_ENCODINGS) |->
                    IF e \in encs THEN Some(table) ELSE None] ]

without(header, labels) == SelectSeq(header, LAMBDA c : c \notin labels)

\* headers that lack required columns, or carry one under a padded label
DefectiveHeaders ==
    { without(COLUMN_MAPPING, {L_amount}),
      without(COLUMN_MAPPING, {L_amount, L_date}),
      without(COLUMN_MAPPING, {L_amount}) \o << <<" ">> \o L_amount >>,
      without(COLUMN_MAPPING, {L_major_category}) \o <<L_extra>> }

DefectiveRows ==
    { r \in RowChoices : r[L_transaction_id] \in {T(<<"a", "1">>), T(<<"a", "8">>)} }

AllEncodings == Range(SUPPORTED_ENCODINGS)

\* a file by what each encoding reads it to
Reading(utf8, sig, sjis, cp932) ==
    [ reads |-> ("utf-8" :> utf8) @@ ("utf-8-sig" :> sig)
                @@ ("shift_jis" :> sjis) @@ ("cp932" :> cp932) ]

\* a one-row table for each of two rows, and what a legacy encoding makes
\* of the same bytes when they are UTF-8: unreadable labels
TableA == Table(COLUMN_MAPPING, << CHOOSE r \in RowChoices : r[L_transaction_id] = T(<<"a", "1">>) >>)
TableB == Table(COLUMN_MAPPING, << CHOOSE r \in RowChoices : r[L_transaction_id] = T(<<"a", "2">>) >>)
Garbled == Table(<<L_extra>>, << CHOOSE r \in RowChoices : r[L_transaction_id] = T(<<"a", "1">>) >>)

\* files that the encodings read differently
MixedFiles ==
    { \* UTF-8 bytes that are also valid in the legacy encodings
      Reading(Some(TableA), Some(TableA), Some(Garbled), Some(Garbled)),
      \* characters that cp932 alone has
      Reading(None, None, None, Some(TableA)),
      \* bytes that shift_jis and cp932 map to different characters
      Reading(None, None, Some(TableA), Some(TableB)) }

Files ==
    \* well-formed headers, any rows
    { File(Table(COLUMN_MAPPING, rows), AllEncodings) :
          rows \in SeqsUpTo(RowChoices, MaxRows) }
    \* an extra column, which is ignored
    \cup { File(Table(COLUMN_MAPPING \o <<L_extra>>, rows), AllEncodings) :
               rows \in SeqsUpTo(DefectiveRows, MaxRows) }
    \* required columns missing
    \cup { File(Table(h, rows), AllEncodings) :
               h \in DefectiveHeaders, rows \in SeqsUpTo(DefectiveRows, MaxRows) }
    \* a legacy encoding
    \cup { File(Table(COLUMN_MAPPING, rows), {"shift_jis", "cp932"}) :
               rows \in SeqsUpTo(DefectiveRows, MaxRows) }
    \* no encoding reads the file
    \cup { File(Table(COLUMN_MAPPING, <<>>), {}) }
    \cup MixedFiles

----------------------------------------------------------------------------
(* The parser as a state machine: one action per public method *)

Self ==
    [ df |-> _df, transactions |-> _transactions, parse_errors |-> _parse_errors,
      read_csv_calls |-> read_csv_calls ]

\* the parser and the outcome after a call that gave r
Stored(op, r) ==
    /\ _df' = r.self.df
    /\ _transactions' = r.self.transactions
    /\ _parse_errors' = r.self.parse_errors
    /\ read_csv_calls' = r.self.read_csv_calls
    /\ ret' = [op |-> op, raised |-> r.raised, error |-> r.error, value |-> r.value]

\* the state after a call that gave r
Called(op, r) ==
    /\ Stored(op, r)
    /\ UNCHANGED <<file, dt_in, dt_out, am_in, am_out, run, send>>

Unused == <<>>

\* CSVParser.__init__ has run on the file
Init ==
    /\ file \in Files
    /\ _df = None
    /\ _transactions = None
    /\ _parse_errors = <<>>
    /\ read_csv_calls = <<>>
    /\ ret = [op |-> "__init__", raised |-> FALSE, error |-> NoError, value |-> None]
    /\ dt_in = Unused /\ dt_out = Unused
    /\ am_in = Unused /\ am_out = Unused
    /\ run = Unused /\ send = Unused

parse ==
    \E r \in {do_parse(Self, file)} : Called("parse", r)

get_parse_errors ==
    \E r \in {do_get_parse_errors(Self)} : Called("get_parse_errors", r)

get_dataframe ==
    \E r \in {do_get_dataframe(Self, file)} : Called("get_dataframe", r)

get_summary ==
    \E r \in {do_get_summary(Self, file)} : Called("get_summary", r)

to_csv_string ==
    \E r \in {do_to_csv_string(Self, file)} : Called("to_csv_string", r)

to_analysis_text ==
    \E r \in {do_to_analysis_text(Self, file)} : Called("to_analysis_text", r)

Next ==
    \/ parse
    \/ get_parse_errors
    \/ get_dataframe
    \/ get_summary
    \/ to_csv_string
    \/ to_analysis_text

Spec == Init /\ [][Next]_vars

----------------------------------------------------------------------------
(* The date round trip: a calendar date is written in one of the five      *)
(* formats and handed to _parse_date.                                      *)

Years == {2023, 2024}

ValidDates ==
    { date \in [y : Years, m : 1..12, d : 1..31] : ValidDate(date.y, date.m, date.d) }

\* the parser is not in use
ParserIdle ==
    /\ file = File(Table(COLUMN_MAPPING, <<>>), {})
    /\ _df = None
    /\ _transactions = None
    /\ _parse_errors = <<>>
    /\ read_csv_calls = <<>>
    /\ ret = [op |-> "__init__", raised |-> FALSE, error |-> NoError, value |-> None]

DateInit ==
    /\ ParserIdle
    /\ dt_in \in { [date |-> date, fmt |-> fmt, text |-> strftime(date, fmt)] :
                       date \in ValidDates, fmt \in Range(WrittenFormats) }
    /\ dt_out = Unused
    /\ am_in = Unused /\ am_out = Unused
    /\ run = Unused /\ send = Unused

parse_date ==
    /\ dt_out = Unused
    /\ dt_out' = Some(_parse_date(dt_in.text))
    /\ UNCHANGED <<parserVars, dt_in, amountVars, run, send>>

DateNext == parse_date

SpecDate == DateInit /\ [][DateNext]_vars

----------------------------------------------------------------------------
(* The amount round trip: an integer is written with thousands separators  *)
(* and a yen glyph and handed to _parse_amount.                            *)

MaxAmount == 1100

\* small amounts, thousands and millions, of both signs
AmountInputs ==
    UNION { {k, -k, 1000 * k, -1000 * k, 1000003 * k, -1000003 * k} :
                k \in 0..MaxAmount }

\* n with thousands separators and the glyph, the minus sign before the
\* glyph (-¥500) or after it (¥-500)
write_amount(n, glyph, minus) ==
    IF n >= 0 THEN <<glyph>> \o comma_format(n)
    ELSE IF minus = "before" THEN <<"-", glyph>> \o comma_format(-n)
    ELSE <<glyph, "-">> \o comma_format(-n)

AmountInit ==
    /\ ParserIdle
    /\ am_in \in { [n |-> n, glyph |-> g, minus |-> p, text |-> write_amount(n, g, p)] :
                       n \in AmountInputs, g \in {"YEN", "FWYEN"},
                       p \in {"before", "after"} }
    /\ am_out = Unused
    /\ dt_in = Unused /\ dt_out = Unused
    /\ run = Unused /\ send = Unused

parse_amount ==
    /\ am_out = Unused
    /\ am_out' = Some(_parse_amount(Cell(am_in.text)))
    /\ UNCHANGED <<parserVars, am_in, dateVars, run, send>>

AmountNext == parse_amount

SpecAmount == AmountInit /\ [][AmountNext]_vars

----------------------------------------------------------------------------
(* What the file holds, for the statements below *)

\* the file reads under some supported encoding
Decodes(f) == try_encodings(f, SUPPORTED_ENCODINGS, <<>>).df # None

\* the table it reads to
Decoded(f) == try_encodings(f, SUPPORTED_ENCODINGS, <<>>).df[1]

\* the required labels the table lacks
MissingLabels(f) == Range(COLUMN_MAPPING) \ Range(Decoded(f).columns)

\* decoding and column validation pass
Ingestible(f) == Decodes(f) /\ _validate_columns(Decoded(f)) = NoError

\* the data rows that are not fully blank
DataRows(f) == _preprocess_dataframe(Decoded(f)).rows

RowParses(r) == _parse_row(r.cells, r.idx).ok
RowFails(r) == ~_parse_row(r.cells, r.idx).ok

\* the rows that parse and the rows that fail, in file order
GoodRows(f) == SelectSeq(DataRows(f), RowParses)
BadRows(f) == SelectSeq(DataRows(f), RowFails)

Indices(rows) == [i \in 1..Len(rows) |-> rows[i].idx]
ErrorRows(errors) == [i \in 1..Len(errors) |-> errors[i].row]

MalformedDate(r) ==
    /\ ~isna(r.cells[L_date])
    /\ strip(r.cells[L_date].str) # <<>>
    /\ ~_parse_date(r.cells[L_date].str).ok

Returned(op) == ret.op = op /\ ~ret.raised
Raised(op) == ret.op = op /\ ret.raised

----------------------------------------------------------------------------
(* Statements *)

C2_BatchFailure ==
    (ret.op = "parse" /\ Ingestible(file)) =>
        (ret.raised <=> (GoodRows(file) = <<>> /\ BadRows(file) # <<>>))

\* every row has a malformed date, and the parse raised
C2_Witness ==
    /\ Raised("parse")
    /\ ret.error.kind = "Failed to parse any transactions"
    /\ Ingestible(file)
    /\ Len(DataRows(file)) >= 2
    /\ \A i \in 1..Len(DataRows(file)) : MalformedDate(DataRows(file)[i])

\* C3: a file with the ten headers and no data row is summarised without
\* an exception, with total_transactions = 0.
C3_EmptyValidFile ==
    (/\ Decodes(file)
     /\ MissingLabels(file) = {}
     /\ Decoded(file).rows = <<>>
     /\ ret.op = "get_summary") =>
        /\ ~ret.raised
        /\ ret.value.total_transactions = 0

\* C4: when a non-empty set M of required labels is absent from the decoded
\* table, parse() raises with a diagnostic that names every label of M, and
\* nothing is stored: no transaction list, no row error.
C4_MissingColumnsNamed ==
    (/\ ret.op = "parse"
     /\ Decodes(file)
     /\ MissingLabels(file) # {}) =>
        /\ ret.raised
        /\ ret.error.kind = "Missing required columns"
        /\ ret.error.missing = MissingLabels(file)
        /\ _transactions = None
        /\ _parse_errors = <<>>

\* C5: after parse() has raised because all rows failed, a call of
\* get_dataframe, to_csv_string, get_summary or to_analysis_text raises too.
C5_NoPartialResult ==
    [][ (/\ Raised("parse")
         /\ ret.error.kind = "Failed to parse any transactions"
         /\ ret'.op \in {"get_dataframe", "to_csv_string",
                         "get_summary", "to_analysis_text"})
        => ret'.raised ]_vars

Amounts2(items) == [i \in 1..Len(items) |-> items[i][2]]

\* C6: the values of expense_by_category sum to total_expense.
C6_CategoriesSumToExpense ==
    Returned("get_summary") =>
        SumSeq(Amounts2(ret.value.expense_by_category)) = ret.value.total_expense

\* two expenses of one category
C6_Witness ==
    /\ Returned("get_summary")
    /\ Len(ret.value.expense_by_category) = 1
    /\ ret.value.total_transactions = 2
    /\ ret.value.total_expense = 1000

\* C7: net_cashflow = total_income - total_expense.
C7_NetCashflow ==
    Returned("get_summary") =>
        ret.value.net_cashflow = ret.value.total_income - ret.value.total_expense

C7_Witness ==
    /\ Returned("get_summary")
    /\ ret.value.total_income > 0
    /\ ret.value.total_expense > 0
    /\ ret.value.net_cashflow # 0

FourFields(summary) ==
    << summary.total_income, summary.total_expense, summary.net_cashflow,
       summary.expense_by_category >>

IsNoTransfer(t) == ~t.is_transfer

\* the list with the amount and the category of transaction i changed
Retouched(ts, i, amount, category) ==
    [ts EXCEPT ![i].amount = amount, ![i].major_category = category]

\* C8: removing the transfers of the transaction list, or changing the
\* amount or the category of one of them, leaves total_income,
\* total_expense, net_cashflow and expense_by_category unchanged.
C8_TransfersDoNotCount ==
    Returned("get_summary") =>
        /\ FourFields(summarize(SelectSeq(_transactions[1], IsNoTransfer), _parse_errors))
               = FourFields(ret.value)
        /\ \A i \in 1..Len(_transactions[1]) :
               _transactions[1][i].is_transfer =>
                   \A amount \in {-7777, 0, 4321}, category \in {food, transport} :
                       FourFields(summarize(
                           Retouched(_transactions[1], i, amount, category),
                           _parse_errors)) = FourFields(ret.value)

\* an outgoing transfer next to an expense that counts
C8_Witness ==
    /\ Returned("get_summary")
    /\ \E i \in 1..Len(_transactions[1]) :
           _transactions[1][i].is_transfer /\ _transactions[1][i].amount < 0
    /\ ret.value.total_expense = 500
    /\ ret.value.expense_by_category = << <<food, 500>> >>

Swapped(date) == D(date.y, date.d, date.m)

\* C9 as stated: a valid date written in any of the five formats parses to
\* the same date.
C9_DateRoundTrip ==
    dt_out # Unused => (dt_out[1].ok /\ dt_out[1].date = dt_in.date)

\* C9 amended: a valid date written as YYYY/MM/DD, YYYY-MM-DD,
\* YYYY年MM月DD日 or MM/DD/YYYY parses to the same date; written as DD/MM/YYYY
\* it parses to the same date when the day is above 12, and to the date with
\* day and month exchanged when the day is at most 12.
C9_DateRoundTripAmended ==
    dt_out # Unused =>
        /\ dt_out[1].ok
        /\ dt_out[1].date =
               IF dt_in.fmt = DayFirst /\ dt_in.date.d <= 12
               THEN Swapped(dt_in.date) ELSE dt_in.date

\* a day-first date with a day above 12 came back unchanged
C9_Witness ==
    /\ dt_out # Unused
    /\ dt_in.fmt = DayFirst
    /\ dt_in.date.d > 12
    /\ dt_out[1].ok
    /\ dt_out[1].date = dt_in.date

\* C10: an integer written with thousands separators and a yen glyph,
\* half-width or full-width, the minus sign before or after the glyph,
\* parses to the same integer.
C10_AmountRoundTrip ==
    am_out # Unused => (am_out[1].ok /\ am_out[1].val = am_in.n)

\* a negative amount with a separator, full-width glyph, minus after it
C10_Witness ==
    /\ am_out # Unused
    /\ am_in.n <= -1000
    /\ am_in.glyph = "FWYEN"
    /\ am_in.minus = "after"
    /\ am_out[1] = IntParsed(am_in.n)

\* the cell is missing (NaN) or holds no text
Absent(c) == isna(c) \/ strip(c.str) = <<>>

\* C11: when the identifier cell of a row is missing or empty, the
\* transaction made from the row has the identifier unknown_<row index>,
\* and not the empty string.
C11_SyntheticIdentifier ==
    (Returned("parse") /\ Ingestible(file)) =>
        \A i \in 1..Len(GoodRows(file)) :
            Absent(GoodRows(file)[i].cells[L_transaction_id]) =>
                /\ ret.value[i].transaction_id = unknown_id(GoodRows(file)[i].idx)
                /\ ret.value[i].transaction_id # <<>>

----------------------------------------------------------------------------
(* Conversion of rows with odd cells: parse() on files whose rows lack     *)
(* cells, hold blanks only, or hold a date text that pandas reads as NaT.  *)

OddRows ==
    { r \in RowChoices :
          \/ Absent(r[L_transaction_id]) /\ ~Absent(r[L_date])
          \/ r[L_transaction_id] \in {T(<<"a", "6">>), T(<<"a", "7">>), T(<<"a", "8">>)} }
    \cup
    { \* the date text NaT
      Row(<<T(<<"1">>), T(<<"N", "a", "T">>), T(<<"t", "e", "a">>),
            T(<<"-", "5", "0", "0">>), T(bank), T(food), NA,
            NA, T(<<"0">>), T(<<"c", "1">>)>>),
      \* blanks in the description and the categories, no amount
      Row(<<T(<<"1">>), T(strftime(D(2024, 2, 29), WrittenFormats[2])), T(<<" ", " ">>),
            NA, T(bank), T(<<" ">>), T(<<" ">>),
            NA, T(<<"0">>), T(<<" ">>)>>) }

OddFiles ==
    { File(Table(COLUMN_MAPPING, rows), AllEncodings) : rows \in SeqsUpTo(OddRows, MaxRows) }

ParseInit ==
    /\ file \in OddFiles
    /\ _df = None
    /\ _transactions = None
    /\ _parse_errors = <<>>
    /\ read_csv_calls = <<>>
    /\ ret = [op |-> "__init__", raised |-> FALSE, error |-> NoError, value |-> None]
    /\ dt_in = Unused /\ dt_out = Unused
    /\ am_in = Unused /\ am_out = Unused
    /\ run = Unused /\ send = Unused

ParseNext ==
    \/ parse
    \/ get_parse_errors

SpecParse == ParseInit /\ [][ParseNext]_vars

\* the three texts of the transaction are not empty
HasTexts(t) ==
    /\ t.description # <<>>
    /\ t.major_category # <<>>
    /\ t.minor_category # <<>>

\* the texts of a transaction made from the row r have the placeholders
\* where the row has no text
HasDefaults(t, r) ==
    /\ Absent(r.cells[L_description]) => t.description = Unknown
    /\ Absent(r.cells[L_major_category]) => t.major_category = Uncategorized
    /\ Absent(r.cells[L_minor_category]) => t.minor_category = Uncategorized

\* C12: every transaction parse() returns has a non-empty description,
\* major category and minor category, with the placeholders where the row
\* has none, an integer amount and a valid calendar date.
C12_WellFormedTransactions ==
    (Returned("parse") /\ Ingestible(file)) =>
        \A i \in 1..Len(ret.value) :
            /\ HasTexts(ret.value[i])
            /\ HasDefaults(ret.value[i], GoodRows(file)[i])
            /\ ret.value[i].amount \in Int
            /\ ValidDate(ret.value[i].date.y, ret.value[i].date.m, ret.value[i].date.d)

----------------------------------------------------------------------------
(* The holder of the records: parse() returns the list self._transactions  *)
(* itself, and Transaction is a plain dataclass, so the caller can assign  *)
(* to a field of a record the parser still holds.                          *)

HolderRows ==
    { r \in RowChoices :
          r[L_transaction_id] \in {T(<<"a", "1">>), T(<<"a", "2">>), T(<<"a", "4">>)} }

HolderFiles ==
    { File(Table(COLUMN_MAPPING, rows), AllEncodings) : rows \in SeqsUpTo(HolderRows, MaxRows) }

HolderInit ==
    /\ file \in HolderFiles
    /\ _df = None
    /\ _transactions = None
    /\ _parse_errors = <<>>
    /\ read_csv_calls = <<>>
    /\ ret = [op |-> "__init__", raised |-> FALSE, error |-> NoError, value |-> None]
    /\ dt_in = Unused /\ dt_out = Unused
    /\ am_in = Unused /\ am_out = Unused
    /\ run = Unused /\ send = Unused

\* t.amount = 0 or t.major_category = "train", for a record t of the list
\* parse() returned: the dataclass is not frozen, the assignment succeeds
setattr ==
    /\ _transactions # None
    /\ \E i \in 1..Len(_transactions[1]) :
           \E t \in { [_transactions[1][i] EXCEPT !.amount = 0],
                      [_transactions[1][i] EXCEPT !.major_category = transport] } :
               _transactions' = Some([_transactions[1] EXCEPT ![i] = t])
    /\ ret' = [op |-> "setattr", raised |-> FALSE, error |-> NoError, value |-> None]
    /\ UNCHANGED <<file, _df, _parse_errors, read_csv_calls, dt_in, dt_out, am_in, am_out, run, send>>

HolderNext ==
    \/ parse
    \/ get_dataframe
    \/ get_summary
    \/ to_analysis_text
    \/ setattr

SpecHolder == HolderInit /\ [][HolderNext]_vars

\* C13: once the transactions are constructed, no later operation, a parser
\* method or an assignment by the holder of a record, changes a field of
\* any of them.
C13_TransactionsImmutable ==
    [][_transactions # None => _transactions' = _transactions]_vars

\* C14: every summary get_summary() returns, for an empty as for a
\* non-empty transaction list, has parse_errors equal to the number of rows
\* that failed in the last parse, so that total_transactions + parse_errors
\* is the number of data rows of the file that are not blank.
C14_SummaryCountsErrors ==
    Returned("get_summary") =>
        /\ ret.value.parse_errors = Len(_parse_errors)
        /\ ret.value.parse_errors = Len(BadRows(file))
        /\ ret.value.total_transactions + ret.value.parse_errors = Len(DataRows(file))

\* a summary of one transaction and one failed row
C14_Witness ==
    /\ Returned("get_summary")
    /\ ret.value.total_transactions = 1
    /\ ret.value.parse_errors = 1
    /\ Len(DataRows(file)) = 2

EncodingOrder == <<"utf-8", "utf-8-sig", "shift_jis", "cp932">>

\* the positions in the order of the encodings that read the file
Readable(f) == { k \in 1..Len(EncodingOrder) : f.reads[EncodingOrder[k]] # None }

\* the first of them
FirstReadable(f) == CHOOSE k \in Readable(f) : \A j \in Readable(f) : k <= j

\* C15: pd.read_csv is called with utf-8, utf-8-sig, shift_jis, cp932 in this
\* order, up to and including the first encoding that reads the file and
\* with none after it; the table is the one read under that encoding; when
\* none of the four reads the file, parse() raises CSVParseError naming the
\* four encodings.
C15_EncodingOrder ==
    /\ read_csv_calls # <<>> =>
           read_csv_calls =
               IF Readable(file) = {} THEN EncodingOrder
               ELSE SubSeq(EncodingOrder, 1, FirstReadable(file))
    /\ ret.op = "parse" =>
           /\ read_csv_calls # <<>>
           /\ IF Readable(file) = {}
              THEN /\ ret.raised
                   /\ ret.error.kind = "Could not decode CSV file"
                   /\ ret.error.tried = EncodingOrder
                   /\ _df = None
              ELSE /\ ret.error.kind # "Could not decode CSV file"
                   /\ _df # None =>
                          _df[1] = _preprocess_dataframe(
                                       file.reads[EncodingOrder[FirstReadable(file)]][1])

\* shift_jis read the file after utf-8 and utf-8-sig failed, and cp932,
\* which reads it to another table, was not tried
C15_Witness ==
    /\ Returned("parse")
    /\ read_csv_calls = <<"utf-8", "utf-8-sig", "shift_jis">>
    /\ file.reads["cp932"] # None
    /\ file.reads["cp932"] # file.reads["shift_jis"]
    /\ _df = Some(_preprocess_dataframe(file.reads["shift_jis"][1]))

----------------------------------------------------------------------------
(* Construction: CSVParser(csv_path).  Here file carries, next to what the *)
(* encodings read, what the file system tells about the path.              *)

MAX_FILE_SIZE_BYTES == 10 * 1024 * 1024

\* mutant: a file of exactly the limit is refused
too_large_at_limit(file_size) == file_size >= MAX_FILE_SIZE_BYTES

\* "file_size > self.MAX_FILE_SIZE_BYTES"
too_large(file_size) == file_size > MAX_FILE_SIZE_BYTES

\* "self.csv_path.suffix.lower() not in ['.csv', '.txt']"
unexpected_extension(suffix) ==
    lower(suffix) \notin { <<".", "c", "s", "v">>, <<".", "t", "x", "t">> }

\* the checks of __init__ in their order: the CSVParseError raised, or NoError
path_error(path) ==
    IF path.is_none THEN [kind |-> "CSV path cannot be None"]
    ELSE IF ~path.exists THEN [kind |-> "CSV file not found"]
    ELSE IF ~path.is_file THEN [kind |-> "Path is not a file"]
    ELSE IF path.size = 0 THEN [kind |-> "CSV file is empty"]
    ELSE IF too_large(path.size) THEN [kind |-> "CSV file too large"]
    ELSE NoError

\* the warning logged on the way, if the checks get as far as the extension
path_warning(path) ==
    IF ~path.is_none /\ path.exists /\ path.is_file /\ unexpected_extension(path.suffix)
    THEN Some("Unexpected file extension") ELSE None

Suffixes ==
    { <<".", "c", "s", "v">>, <<".", "C", "S", "V">>, <<".", "t", "x", "t">>,
      <<".", "d", "a", "t">> }

Sizes ==
    { 0, 2048, MAX_FILE_SIZE_BYTES - 1, MAX_FILE_SIZE_BYTES,
      MAX_FILE_SIZE_BYTES + 1, 2 * MAX_FILE_SIZE_BYTES }

Paths ==
    { [is_none |-> TRUE, exists |-> FALSE, is_file |-> FALSE, size |-> 0,
       suffix |-> <<>>] }
    \cup { [is_none |-> FALSE, exists |-> FALSE, is_file |-> FALSE, size |-> 0,
            suffix |-> s] : s \in Suffixes }
    \* a directory
    \cup { [is_none |-> FALSE, exists |-> TRUE, is_file |-> FALSE, size |-> 0,
            suffix |-> s] : s \in Suffixes }
    \cup { [is_none |-> FALSE, exists |-> TRUE, is_file |-> TRUE, size |-> n,
            suffix |-> s] : n \in Sizes, s \in Suffixes }

PathFiles ==
    { [reads |-> f.reads, path |-> p] :
          f \in { File(TableA, AllEncodings), File(TableA, {}) }, p \in Paths }

\* nothing is constructed yet
InitInit ==
    /\ file \in PathFiles
    /\ _df = None
    /\ _transactions = None
    /\ _parse_errors = <<>>
    /\ read_csv_calls = <<>>
    /\ ret = [op |-> "none", raised |-> FALSE, error |-> NoError, value |-> None]
    /\ dt_in = Unused /\ dt_out = Unused
    /\ am_in = Unused /\ am_out = Unused
    /\ run = Unused /\ send = Unused

\* CSVParser.__init__
__init__ ==
    /\ ret.op = "none"
    /\ _df' = None
    /\ _transactions' = None
    /\ _parse_errors' = <<>>
    /\ ret' = [op |-> "__init__", raised |-> path_error(file.path) # NoError,
               error |-> path_error(file.path), value |-> path_warning(file.path)]
    /\ UNCHANGED <<file, read_csv_calls, dt_in, dt_out, am_in, am_out, run, send>>

\* a parser exists: the constructor returned
Constructed == ret.op # "none" /\ ~(ret.op = "__init__" /\ ret.raised)

parse_constructed == Constructed /\ parse

InitNext ==
    \/ __init__
    \/ parse_constructed

SpecInit == InitInit /\ [][InitNext]_vars

MiB == 1024 * 1024

\* C16: the constructor raises CSVParseError exactly when the path is None,
\* does not exist, is not a regular file, has size 0 or has a size above
\* 10 MiB; it reads nothing; a file of exactly 10 MiB is accepted and the
\* extension plays no part.
C16_ConstructorChecks ==
    /\ ret.op = "__init__" =>
           /\ ret.raised <=>
                  \/ file.path.is_none
                  \/ ~file.path.exists
                  \/ ~file.path.is_file
                  \/ file.path.size = 0
                  \/ file.path.size > 10 * MiB
           /\ read_csv_calls = <<>>
           /\ _df = None /\ _transactions = None
    /\ ~Constructed => read_csv_calls = <<>>

\* a file of exactly 10 MiB with the extension .dat was accepted
C16_Witness ==
    /\ ret.op = "__init__"
    /\ ~ret.raised
    /\ file.path.size = 10 * MiB
    /\ file.path.suffix = <<".", "d", "a", "t">>
    /\ ret.value # None

----------------------------------------------------------------------------

\* the amounts of ts, with 0 for a transfer, for a row excluded from the
\* calculation and for an amount of the other sign
CountedAmounts(ts, sign) ==
    [i \in 1..Len(ts) |->
        IF ~ts[i].is_transfer /\ ts[i].is_calculated /\ sign * ts[i].amount > 0
        THEN ts[i].amount ELSE 0]

IsCalculated(t) == t.is_calculated

\* C17: total_income is the sum of the positive amounts and total_expense
\* the absolute value of the sum of the negative amounts over the
\* transactions that are no transfer and are marked as calculated; both are
\* at least 0, and a row excluded from the calculation adds to neither of
\* them nor to expense_by_category.
C17_CountableOnly ==
    (Returned("get_summary") /\ _transactions[1] # <<>>) =>
        /\ ret.value.total_income = SumSeq(CountedAmounts(_transactions[1], 1))
        /\ ret.value.total_expense = Abs(SumSeq(CountedAmounts(_transactions[1], -1)))
        /\ ret.value.total_income >= 0
        /\ ret.value.total_expense >= 0
        /\ FourFields(summarize(SelectSeq(_transactions[1], IsCalculated), _parse_errors))
               = FourFields(ret.value)

\* an expense excluded from the calculation next to one that counts
C17_Witness ==
    /\ Returned("get_summary")
    /\ \E i \in 1..Len(_transactions[1]) :
           /\ ~_transactions[1][i].is_calculated
           /\ ~_transactions[1][i].is_transfer
           /\ _transactions[1][i].amount < 0
    /\ \E i \in 1..Len(_transactions[1]) :
           /\ is_countable(_transactions[1][i])
           /\ _transactions[1][i].amount < 0
    /\ ret.value.total_expense > 0

\* the file has data rows and all of them are blank
AllRowsBlank(f) ==
    /\ Ingestible(f)
    /\ Decoded(f).rows # <<>>
    /\ DataRows(f) = <<>>

\* C18: when the parse gives an empty transaction list, as for a file whose
\* data rows are all blank, get_summary() does not raise and returns 0 for
\* total_transactions, total_income, total_expense, net_cashflow and
\* parse_errors, no category, no institution and no date range.
C18_EmptySummary ==
    /\ (ret.op = "get_summary" /\ AllRowsBlank(file)) => ~ret.raised
    /\ (Returned("get_summary") /\ _transactions = Some(<<>>)) =>
           ret.value = [ total_transactions  |-> 0,
                         date_range          |-> None,
                         total_income        |-> 0,
                         total_expense       |-> 0,
                         net_cashflow        |-> 0,
                         expense_by_category |-> <<>>,
                         institutions        |-> {},
                         parse_errors        |-> 0 ]

\* the summary of a file of two blank rows
C18_Witness ==
    /\ Returned("get_summary")
    /\ AllRowsBlank(file)
    /\ Len(Decoded(file).rows) = 2
    /\ _transactions = Some(<<>>)
    /\ ret.value.total_transactions = 0

\* d as YYYY-MM-DD
Iso(d) == strftime(d, <<"%Y", "-", "%m", "-", "%d">>)

\* the date of transaction i is the earliest, or the latest, of ts
Earliest(ts, i) == \A j \in 1..Len(ts) : DateLE(ts[i].date, ts[j].date)
Latest(ts, i) == \A j \in 1..Len(ts) : DateLE(ts[j].date, ts[i].date)

\* C19: date_range is absent exactly when the transaction list is empty,
\* and otherwise runs from the earliest to the latest date of all
\* transactions, transfers and rows excluded from the calculation included.
C19_DateRangeOverAll ==
    Returned("get_summary") =>
        /\ ret.value.date_range = None <=> _transactions[1] = <<>>
        /\ _transactions[1] # <<>> =>
               /\ \E i \in 1..Len(_transactions[1]) :
                      /\ Earliest(_transactions[1], i)
                      /\ ret.value.date_range[1].start = Iso(_transactions[1][i].date)
               /\ \E i \in 1..Len(_transactions[1]) :
                      /\ Latest(_transactions[1], i)
                      /\ ret.value.date_range[1].end = Iso(_transactions[1][i].date)

\* the range starts at a transfer that comes second and ends at a row
\* excluded from the calculation
C19_Witness ==
    /\ Returned("get_summary")
    /\ Len(_transactions[1]) = 2
    /\ ~_transactions[1][1].is_calculated
    /\ _transactions[1][2].is_transfer
    /\ ret.value.date_range[1].start = Iso(_transactions[1][2].date)
    /\ ret.value.date_range[1].end = Iso(_transactions[1][1].date)
    /\ ret.value.date_range[1].start # ret.value.date_range[1].end

\* transaction i of ts is an expense that counts, in category c
CountedExpense(ts, i, c) ==
    /\ ~ts[i].is_transfer
    /\ ts[i].is_calculated
    /\ ts[i].amount < 0
    /\ ts[i].major_category = c

\* the position of the first such transaction
FirstSeen(ts, c) ==
    CHOOSE i \in 1..Len(ts) :
        CountedExpense(ts, i, c) /\ \A j \in 1..(i - 1) : ~CountedExpense(ts, j, c)

----------------------------------------------------------------------------
(* The listing of the report on files with more rows than the listing     *)
(* holds.  Row i has the description and the identifier i, so that a line  *)
(* of the listing tells which row it was made from.                        *)

MaxListed == 22

\* the day of January 2024 of row i of n, for four ways of ordering a file
ListedDay(pattern, i) ==
    CASE pattern = "ascending"  -> i
      [] pattern = "descending" -> 31 - i
      [] pattern = "zigzag"     -> IF i % 2 = 1 THEN i ELSE 31 - i
      [] pattern = "repeating"  -> 1 + (i % 3)

ListedRow(pattern, i) ==
    Row(<<T(<<"1">>), T(strftime(D(2024, 1, ListedDay(pattern, i)), WrittenFormats[1])),
          T(NatStr(i)), T(<<"-">> \o NatStr(i)), T(bank), T(food), NA,
          NA, T(<<"0">>), T(NatStr(i))>>)

ListedFiles ==
    { File(Table(COLUMN_MAPPING, [i \in 1..n |-> ListedRow(pattern, i)]), AllEncodings) :
          n \in 1..MaxListed,
          pattern \in {"ascending", "descending", "zigzag", "repeating"} }

ListingInit ==
    /\ file \in ListedFiles
    /\ _df = None
    /\ _transactions = None
    /\ _parse_errors = <<>>
    /\ read_csv_calls = <<>>
    /\ ret = [op |-> "__init__", raised |-> FALSE, error |-> NoError, value |-> None]
    /\ dt_in = Unused /\ dt_out = Unused
    /\ am_in = Unused /\ am_out = Unused
    /\ run = Unused /\ send = Unused

ListingNext ==
    \/ parse
    \/ to_analysis_text

SpecListing == ListingInit /\ [][ListingNext]_vars

IsListingLine(line) ==
    line.label = "- {date} | {description} | {amount} | {major_category}"

\* the lines of the transaction listing of a report
ListingOf(report) == SelectSeq(report, IsListingLine)

\* the transaction a line was made from: the one with its description
SourceOf(ts, line) == CHOOSE i \in 1..Len(ts) : ts[i].description = line.args[2]

Min2(a, b) == IF a < b THEN a ELSE b

\* lines is a listing of the latest transactions of ts, latest first
LatestFirst(ts, lines) ==
    /\ Len(lines) = Min2(20, Len(ts))
    /\ \A i \in 1..Len(lines) :
           /\ \E k \in 1..Len(ts) : ts[k].description = lines[i].args[2]
           /\ lines[i].args[1] = Iso(ts[SourceOf(ts, lines[i])].date)
    /\ \A i, j \in 1..Len(lines) :
           i < j =>
               /\ lines[i].args[2] # lines[j].args[2]
               /\ DateLE(ts[SourceOf(ts, lines[j])].date, ts[SourceOf(ts, lines[i])].date)
    /\ \A k \in 1..Len(ts) :
           (\A i \in 1..Len(lines) : lines[i].args[2] # ts[k].description) =>
               \A i \in 1..Len(lines) :
                   DateLE(ts[k].date, ts[SourceOf(ts, lines[i])].date)

\* C21: the listing of the report has min(20, n) lines for n transactions,
\* made from different transactions, in descending order of date, and no
\* transaction left out is later than a listed one.
C21_ListingLatestTwenty ==
    Returned("to_analysis_text") => LatestFirst(_transactions[1], ListingOf(ret.value))

\* a report on more than 20 transactions whose file is not in date order
C21_Witness ==
    /\ Returned("to_analysis_text")
    /\ Len(_transactions[1]) > 20
    /\ Len(ListingOf(ret.value)) = 20
    /\ \E i \in 1..(Len(_transactions[1]) - 1) :
           ~DateLE(_transactions[1][i + 1].date, _transactions[1][i].date)

----------------------------------------------------------------------------
(* The currency values of the report *)

\* the currency values a line of the report shows
CurrencyTexts(line) ==
    CASE line.label \in {"- income: {amount}", "- expense: {amount}", "- net: {amount}"}
             -> {line.args[1]}
      [] line.label = "- {category}: {amount}" -> {line.args[2]}
      [] IsListingLine(line) -> {line.args[3]}
      [] OTHER -> {}

\* a minus sign, if there is one, is the first character of the text
MinusLeads(text) == \A i \in 1..Len(text) : text[i] = "-" => i = 1

\* C22: in a report no currency value has a minus sign behind the currency
\* glyph: the sign of a negative value comes first (-YEN 1,234).
C22_MinusBeforeGlyph ==
    Returned("to_analysis_text") =>
        \A i \in 1..Len(ret.value) :
            \A text \in CurrencyTexts(ret.value[i]) : MinusLeads(text)

\* the amounts of the listing alone do have the sign in front
C22_ListingMinusBeforeGlyph ==
    Returned("to_analysis_text") =>
        \A i \in 1..Len(ret.value) :
            IsListingLine(ret.value[i]) => MinusLeads(ret.value[i].args[3])

\* a report with a negative amount in its listing
C22_ListingWitness ==
    /\ Returned("to_analysis_text")
    /\ \E i \in 1..Len(ret.value) :
           /\ IsListingLine(ret.value[i])
           /\ ret.value[i].args[3][1] = "-"

----------------------------------------------------------------------------
(* Dates as texts: a file of two rows, a well-formed one and one whose     *)
(* date is an arbitrary text, some of them no calendar date in any order.  *)

SlashParts == {1, 2, 5, 12, 13, 29, 30, 31, 32}

\* a/b/y, the two parts written with at least w digits
SlashText(a, b, y, w) ==
    ZeroPad(NatStr(a), w) \o <<"/">> \o ZeroPad(NatStr(b), w) \o <<"/">> \o NatStr(y)

SlashTexts ==
    { SlashText(a, b, y, w) : a \in SlashParts, b \in SlashParts, y \in Years, w \in {1, 2} }

\* dates in the other formats, in the compact form only the fallback reads,
\* and texts that nothing reads
OtherDateTexts ==
    { strftime(D(2024, 1, 15), WrittenFormats[k]) : k \in 1..3 }
    \cup { <<"2", "0", "2", "4", "0", "1", "1", "5">>,
           <<"a", "b", "c">>,
           <<"2", "0", "2", "4", "/", "1", "3", "/", "0", "1">>,
           <<"2", "0", "2", "3", "-", "0", "2", "-", "2", "9">>,
           <<"1", "5", "/", "0", "1">> }

DateTexts == SlashTexts \cup OtherDateTexts

DatedRow(text) ==
    Row(<<T(<<"1">>), T(text), T(<<"t", "e", "a">>), T(<<"-", "3", "0", "0">>), T(card),
          T(food), NA, NA, T(<<"0">>), T(<<"d", "1">>)>>)

DatedFiles ==
    { File(Table(COLUMN_MAPPING,
                 << CHOOSE r \in RowChoices : r[L_transaction_id] = T(<<"a", "1">>),
                    DatedRow(text) >>), AllEncodings) : text \in DateTexts }

DateTextInit ==
    /\ file \in DatedFiles
    /\ _df = None
    /\ _transactions = None
    /\ _parse_errors = <<>>
    /\ read_csv_calls = <<>>
    /\ ret = [op |-> "__init__", raised |-> FALSE, error |-> NoError, value |-> None]
    /\ dt_in = Unused /\ dt_out = Unused
    /\ am_in = Unused /\ am_out = Unused
    /\ run = Unused /\ send = Unused

DateTextNext ==
    \/ parse
    \/ get_parse_errors

SpecDateText == DateTextInit /\ [][DateTextNext]_vars

\* the date text of the second row of the file
DatedText == file.reads["utf-8"][1].rows[2].cells[L_date].str

\* the second row was read as the date d
ReadAs(d) ==
    /\ Len(_transactions[1]) = 2
    /\ _transactions[1][2].date = d
    /\ _parse_errors = <<>>

\* the second row failed on its date
DateRejected ==
    /\ Len(_transactions[1]) = 1
    /\ _parse_errors = <<[row |-> 1, reason |-> "Invalid date format"]>>

\* the formats in the order of the statement that read the text
Matching(text) == { k \in 1..Len(WrittenFormats) : strptime(text, WrittenFormats[k]).ok }

FirstMatching(text) == CHOOSE k \in Matching(text) : \A j \in Matching(text) : k <= j

\* C23: the date of a row is read by the first of YYYY/MM/DD, YYYY-MM-DD,
\* YYYY年MM月DD日, MM/DD/YYYY, DD/MM/YYYY that matches it; a text a/b/YYYY
\* with a <= 12 that is read is read as month a, day b, and one is read as
\* day a, month b only when a > 12 and b <= 12; a text that no format matches
\* and the fallback rejects fails its row with a date error.
C23_FirstFormatWins ==
    Returned("parse") =>
        /\ Matching(DatedText) # {} =>
               ReadAs(strptime(DatedText, WrittenFormats[FirstMatching(DatedText)]).date)
        /\ (Matching(DatedText) = {} /\ ~pd_to_datetime(DatedText).ok) => DateRejected
        /\ \A a, b \in SlashParts, y \in Years, w \in {1, 2} :
               DatedText = SlashText(a, b, y, w) =>
                   /\ (a <= 12 /\ ~DateRejected) => ReadAs(D(y, a, b))
                   /\ (ReadAs(D(y, b, a)) /\ a # b) => (a > 12 /\ b <= 12)
                   /\ (a > 12 /\ b <= 12 /\ ~DateRejected) => ReadAs(D(y, b, a))

\* 05/01/2024, which both slash formats match, was read as 1 May
C23_Witness ==
    /\ Returned("parse")
    /\ DatedText = SlashText(5, 1, 2024, 2)
    /\ Matching(DatedText) = {4, 5}
    /\ ReadAs(D(2024, 5, 1))

\* 13/01/2024 was read day first, and 13/13/2024 failed its row
C23_WitnessDayFirst ==
    /\ Returned("parse")
    /\ DatedText = SlashText(13, 1, 2024, 2)
    /\ ReadAs(D(2024, 1, 13))

C23_WitnessRejected ==
    /\ Returned("parse")
    /\ DatedText = SlashText(13, 13, 2024, 2)
    /\ DateRejected

----------------------------------------------------------------------------
(* Amounts as texts: a file of two rows, a well-formed one and one whose   *)
(* amount is an arbitrary text or missing.                                 *)

\* what may stand before the decimal point, after it, and around the number
IntegerParts ==
    { <<>>, <<"0">>, <<"1">>, <<"1", "2">>, <<"1", "2", "3", "4">>, <<"1", ",", "2", "3", "4">>,
      <<"-", "0">>, <<"-", "1">>, <<"-", "1", ",", "2", "3", "4">>,
      <<"a", "b", "c">>, <<"1", "2", "a">>, <<"-">> }

Fractions ==
    { <<>>, <<".", "5">>, <<".", "9">>, <<".", "9", "9">>, <<".">>,
      <<".", "a", "b", "c">>, <<".", "2", ".", "3">> }

Wrapped(number, wrap) ==
    CASE wrap = "plain"  -> number
      [] wrap = "glyph"  -> <<"YEN">> \o number
      [] wrap = "wide"   -> <<"FWYEN", " ">> \o number
      [] wrap = "suffix" -> number \o <<" ", "EN">>

AmountTexts ==
    { Wrapped(ip \o fr, wrap) :
          ip \in IntegerParts, fr \in Fractions, wrap \in {"plain", "glyph", "wide", "suffix"} }

\* the amount cell as read_csv and the preprocessing leave it: a text, a
\* cell of blanks, or a missing value
AmountCells == { T(text) : text \in AmountTexts \ {<<>>} } \cup { T(<<" ", " ">>), NA }

AmountRow(cell) ==
    Row(<<T(<<"1">>), T(strftime(D(2024, 1, 20), WrittenFormats[1])), T(<<"t", "e", "a">>),
          cell, T(card), T(food), NA, NA, T(<<"0">>), T(<<"m", "1">>)>>)

AmountFiles ==
    { File(Table(COLUMN_MAPPING,
                 << CHOOSE r \in RowChoices : r[L_transaction_id] = T(<<"a", "1">>),
                    AmountRow(cell) >>), AllEncodings) : cell \in AmountCells }

AmountTextInit ==
    /\ file \in AmountFiles
    /\ _df = None
    /\ _transactions = None
    /\ _parse_errors = <<>>
    /\ read_csv_calls = <<>>
    /\ ret = [op |-> "__init__", raised |-> FALSE, error |-> NoError, value |-> None]
    /\ dt_in = Unused /\ dt_out = Unused
    /\ am_in = Unused /\ am_out = Unused
    /\ run = Unused /\ send = Unused

AmountTextNext ==
    \/ parse
    \/ get_parse_errors

SpecAmountText == AmountTextInit /\ [][AmountTextNext]_vars

\* the amount cell of the second row of the file
AmountCell == file.reads["utf-8"][1].rows[2].cells[L_amount]

\* the second row was read with the amount n
AmountIs(n) ==
    /\ Len(_transactions[1]) = 2
    /\ _transactions[1][2].amount = n
    /\ _parse_errors = <<>>

\* the second row failed on its amount
AmountRejected ==
    /\ Len(_transactions[1]) = 1
    /\ _parse_errors = <<[row |-> 1, reason |-> "Invalid amount"]>>

\* the text without yen signs, the yen word, commas and spaces
Bare(text) == SelectSeq(text, LAMBDA ch : ch \notin {"YEN", "FWYEN", "EN", ",", " "})

\* an integer numeral: digits, a minus sign before them or not
IsInteger(s) ==
    /\ s # <<>>
    /\ IF Head(s) = "-" THEN Tail(s) # <<>> /\ AllDigits(Tail(s)) ELSE AllDigits(s)

IntegerOf(s) == IF Head(s) = "-" THEN -DigitsVal(Tail(s)) ELSE DigitsVal(s)

\* a decimal numeral: an integer numeral, a point, digits or none (1234.)
IsDecimalAt(s, k) ==
    /\ s[k] = "."
    /\ IsInteger(SubSeq(s, 1, k - 1))
    /\ AllDigits(SubSeq(s, k + 1, Len(s)))

IsDecimalNumber(s) == \E k \in 1..Len(s) : IsDecimalAt(s, k)

PointOf(s) == CHOOSE k \in 1..Len(s) : s[k] = "."

\* C24: an amount with a decimal fraction is read as its integer part, cut
\* toward zero and never rounded; a missing or blank amount is read as 0 and
\* the row is kept; a text that, yen signs, the yen word, commas and spaces
\* removed, is no number fails its row.
C24_TruncatesOrFails ==
    Returned("parse") =>
        /\ (isna(AmountCell) \/ strip(AmountCell.str) = <<>>) => AmountIs(0)
        /\ (~isna(AmountCell) /\ IsDecimalNumber(Bare(AmountCell.str))) =>
               AmountIs(IntegerOf(SubSeq(Bare(AmountCell.str), 1,
                                         PointOf(Bare(AmountCell.str)) - 1)))
        /\ (~isna(AmountCell) /\ IsInteger(Bare(AmountCell.str))) =>
               AmountIs(IntegerOf(Bare(AmountCell.str)))
        /\ (/\ ~isna(AmountCell)
            /\ strip(AmountCell.str) # <<>>
            /\ ~IsInteger(Bare(AmountCell.str))
            /\ ~IsDecimalNumber(Bare(AmountCell.str))) => AmountRejected

\* what the code does: the text is cut at its first point, whatever follows,
\* and the row fails when what stands before the point is no integer
C24_CutAtFirstPoint ==
    Returned("parse") =>
        /\ (isna(AmountCell) \/ strip(AmountCell.str) = <<>>) => AmountIs(0)
        /\ (~isna(AmountCell) /\ strip(AmountCell.str) # <<>>) =>
               IF IsInteger(split_first(Bare(AmountCell.str), "."))
               THEN AmountIs(IntegerOf(split_first(Bare(AmountCell.str), ".")))
               ELSE AmountRejected

\* -1,234.99 with a glyph was read as -1234
C24_WitnessTruncated ==
    /\ Returned("parse")
    /\ AmountCell = T(<<"YEN", "-", "1", ",", "2", "3", "4", ".", "9", "9">>)
    /\ AmountIs(-1234)

\* 12.abc was read as 12
C24_WitnessResidue ==
    /\ Returned("parse")
    /\ AmountCell = T(<<"1", "2", ".", "a", "b", "c">>)
    /\ AmountIs(12)

----------------------------------------------------------------------------
(* Booleans as texts: a file of two rows, a well-formed one and one whose  *)
(* two boolean cells are arbitrary texts or missing.                       *)

BooleanTexts ==
    { <<"1">>, <<"0">>, <<"t", "r", "u", "e">>, <<"T", "R", "U", "E">>,
      <<" ", "T", "r", "u", "e", " ">>, <<"y", "e", "s">>, <<"Y", "E", "S">>,
      <<"Y", "e", "s", " ">>, <<"MARU">>, <<" ", "OMARU">>, <<"n", "o">>,
      <<"f", "a", "l", "s", "e">>, <<"2">>, <<"1", "1">>, <<"y">>, <<"t">>,
      <<"o", "n">>, <<"t", "r", "u">>, <<"t", "r", "u", "e", "1">>,
      <<"1", ".", "0">>, <<"-", "1">>, <<"0", "1">>, <<"t", " ", "r", "u", "e">>,
      <<"x">>, <<" ", " ">> }

BooleanCells == { T(text) : text \in BooleanTexts } \cup { NA }

BooleanRow(calculated, transfer) ==
    Row(<<calculated, T(strftime(D(2024, 1, 20), WrittenFormats[1])), T(<<"t", "e", "a">>),
          T(<<"-", "3", "0", "0">>), T(card), T(food), NA, NA, transfer, T(<<"f", "1">>)>>)

BooleanFiles ==
    { File(Table(COLUMN_MAPPING,
                 << CHOOSE r \in RowChoices : r[L_transaction_id] = T(<<"a", "1">>),
                    BooleanRow(calculated, transfer) >>), AllEncodings) :
          calculated \in BooleanCells,
          transfer \in { T(<<"0">>), T(<<"Y", "E", "S">>), T(<<"o", "n">>), NA } }

BooleanInit ==
    /\ file \in BooleanFiles
    /\ _df = None
    /\ _transactions = None
    /\ _parse_errors = <<>>
    /\ read_csv_calls = <<>>
    /\ ret = [op |-> "__init__", raised |-> FALSE, error |-> NoError, value |-> None]
    /\ dt_in = Unused /\ dt_out = Unused
    /\ am_in = Unused /\ am_out = Unused
    /\ run = Unused /\ send = Unused

BooleanNext ==
    \/ parse
    \/ get_parse_errors

SpecBoolean == BooleanInit /\ [][BooleanNext]_vars

\* the two boolean cells of the second row of the file
CalculatedCell == file.reads["utf-8"][1].rows[2].cells[L_is_calculated]
TransferCell == file.reads["utf-8"][1].rows[2].cells[L_is_transfer]

\* the five texts of the statement
FiveTexts == { <<"1">>, <<"t", "r", "u", "e">>, <<"y", "e", "s">>, <<"MARU">>, <<"OMARU">> }

\* the cell, trimmed and lowercased, is one of the five texts
ReadsTrue(cell) == ~isna(cell) /\ lower(strip(cell.str)) \in FiveTexts

\* C25: a boolean cell is read as true exactly when, trimmed and lowercased,
\* it is one of '1', 'true', 'yes' and the two circles; any other cell,
\* missing and blank ones too, is read as false, and the row never fails.
C25_BooleanTexts ==
    Returned("parse") =>
        /\ Len(_transactions[1]) = 2
        /\ _parse_errors = <<>>
        /\ _transactions[1][2].is_calculated = ReadsTrue(CalculatedCell)
        /\ _transactions[1][2].is_transfer = ReadsTrue(TransferCell)

\* ' True ' was read as true next to a missing cell read as false
C25_Witness ==
    /\ Returned("parse")
    /\ CalculatedCell = T(<<" ", "T", "r", "u", "e", " ">>)
    /\ TransferCell = NA
    /\ _transactions[1][2].is_calculated
    /\ ~_transactions[1][2].is_transfer

\* 'tru', '11' and a blank cell were read as false
C25_WitnessFalse ==
    /\ Returned("parse")
    /\ CalculatedCell \in { T(<<"t", "r", "u">>), T(<<"1", "1">>), T(<<" ", " ">>) }
    /\ ~_transactions[1][2].is_calculated

----------------------------------------------------------------------------
(* Blank rows *)

\* every cell of the row is empty
BlankRow(r) == \A c \in DOMAIN r.cells : isna(r.cells[c])

\* the date of the row is empty
EmptyDate(r) == isna(r.cells[L_date]) \/ strip(r.cells[L_date].str) = <<>>

\* the rows of the file as read, blank ones included
RawRows(f) == Decoded(f).rows

\* the number of transactions the parse gave
Kept == IF ret.raised THEN 0 ELSE Len(ret.value)

\* C26: a data row whose cells are all empty gives neither a transaction
\* nor a parse error, and a row with an empty date and another cell that is
\* not empty gives a parse error.
C26_BlankRowsDropped ==
    (ret.op = "parse" /\ Ingestible(file)) =>
        /\ \A i \in 1..Len(RawRows(file)) :
               /\ BlankRow(RawRows(file)[i]) =>
                      \A k \in 1..Len(_parse_errors) :
                          _parse_errors[k].row # RawRows(file)[i].idx
               /\ (EmptyDate(RawRows(file)[i]) /\ ~BlankRow(RawRows(file)[i])) =>
                      \E k \in 1..Len(_parse_errors) :
                          /\ _parse_errors[k].row = RawRows(file)[i].idx
                          /\ _parse_errors[k].reason = "Date is missing or empty"
        /\ Kept + Len(_parse_errors)
               = Cardinality({ i \in 1..Len(RawRows(file)) : ~BlankRow(RawRows(file)[i]) })

\* a blank row before a row that lacks its date alone: one error, for the
\* second row, and the parse raised
C26_Witness ==
    /\ Raised("parse")
    /\ Ingestible(file)
    /\ Len(RawRows(file)) = 2
    /\ BlankRow(RawRows(file)[1])
    /\ EmptyDate(RawRows(file)[2]) /\ ~BlankRow(RawRows(file)[2])
    /\ ErrorRows(_parse_errors) = <<1>>

\* a blank row after a row that parsed: one transaction and no error
C26_WitnessKept ==
    /\ Returned("parse")
    /\ Len(RawRows(file)) = 2
    /\ BlankRow(RawRows(file)[2])
    /\ Len(ret.value) = 1
    /\ _parse_errors = <<>>

----------------------------------------------------------------------------
(* The order of the rows *)

\* the transaction a row parses to
TransactionOf(r) == _parse_row(r.cells, r.idx).tx

StrictlyIncreasing(s) == \A i, j \in 1..Len(s) : i < j => s[i] < s[j]

\* C27: parse() returns the transactions of the rows that parsed in the
\* order of the file, the parse errors are the rows that failed in the order
\* of the file, and no row is in both lists or twice in one.
C27_FileOrder ==
    (ret.op = "parse" /\ Ingestible(file)) =>
        /\ ErrorRows(_parse_errors) = Indices(BadRows(file))
        /\ StrictlyIncreasing(ErrorRows(_parse_errors))
        /\ Returned("parse") =>
               /\ Len(ret.value) = Len(GoodRows(file))
               /\ \A i \in 1..Len(ret.value) :
                      ret.value[i] = TransactionOf(GoodRows(file)[i])
               /\ StrictlyIncreasing(Indices(GoodRows(file)))
               /\ Range(Indices(GoodRows(file))) \cap Range(ErrorRows(_parse_errors)) = {}
               /\ Len(ret.value) + Len(_parse_errors) = Len(DataRows(file))

\* two different rows that parsed, the later one first in the calendar
C27_Witness ==
    /\ Returned("parse")
    /\ Len(ret.value) = 2
    /\ ret.value[1] # ret.value[2]
    /\ ~DateLE(ret.value[1].date, ret.value[2].date)
    /\ ret.value[1] = TransactionOf(DataRows(file)[1])

\* two rows that failed for different reasons
C27_WitnessErrors ==
    /\ Raised("parse")
    /\ Len(_parse_errors) = 2
    /\ _parse_errors[1].reason # _parse_errors[2].reason
    /\ ErrorRows(_parse_errors) = <<0, 1>>

----------------------------------------------------------------------------
(* Calls repeated on one parser.  Before each call below the record of the *)
(* pd.read_csv calls is cleared, as a spy on pd.read_csv is reset, so that  *)
(* after the call it holds the reads the call itself made.                 *)

Spied == [Self EXCEPT !.read_csv_calls = <<>>]

ReparseInit ==
    /\ file \in Files
    /\ _df = None
    /\ _transactions = None
    /\ _parse_errors = <<>>
    /\ read_csv_calls = <<>>
    /\ ret = [op |-> "__init__", raised |-> FALSE, error |-> NoError, value |-> None]
    /\ dt_in = Unused /\ dt_out = Unused
    /\ am_in = Unused /\ am_out = Unused
    /\ run = Unused /\ send = Unused

\* parse() called again on a parser whose last call was parse()
reparse ==
    /\ ret.op \in {"parse", "reparse"}
    /\ \E r \in {do_parse(Spied, file)} : Called("reparse", r)

\* get_summary() on a parser that has parsed
summary_of_parsed ==
    /\ _transactions # None
    /\ \E r \in {do_get_summary(Spied, file)} : Called("get_summary", r)

\* to_analysis_text() on a parser that has parsed
text_of_parsed ==
    /\ _transactions # None
    /\ \E r \in {do_to_analysis_text(Spied, file)} : Called("to_analysis_text", r)

ReparseNext ==
    \/ parse
    \/ reparse
    \/ get_parse_errors
    \/ summary_of_parsed
    \/ text_of_parsed

SpecReparse == ReparseInit /\ [][ReparseNext]_vars

\* C28: a parse() that follows a parse() of the same file leaves the parse
\* errors as they were and gives the outcome of the first, the same
\* transaction list or the same error; get_summary() and to_analysis_text()
\* on a parser that has parsed do not read the file and change neither the
\* stored transactions nor the stored errors.
C28_NoAccumulation ==
    [][ /\ ret'.op = "reparse" =>
               /\ read_csv_calls' # <<>>
               /\ _parse_errors' = _parse_errors
               /\ _transactions' = _transactions
               /\ ret'.raised = ret.raised
               /\ ret'.value = ret.value
               /\ ret'.error = ret.error
        /\ (ret'.op \in {"get_summary", "to_analysis_text"}) =>
               /\ ~ret'.raised
               /\ read_csv_calls' = <<>>
               /\ _transactions' = _transactions
               /\ _parse_errors' = _parse_errors
               /\ _df' = _df ]_vars

\* a second parse of a file with a row that parses and a row that fails
C28_Witness ==
    /\ Returned("reparse")
    /\ Len(ret.value) = 1
    /\ Len(_parse_errors) = 1

\* a summary of a parsed file with a failed row, made without a read
C28_WitnessSummary ==
    /\ Returned("get_summary")
    /\ read_csv_calls = <<>>
    /\ ret.value.parse_errors = 1
    /\ ret.value.total_transactions = 1

----------------------------------------------------------------------------
(* run_analysis (main.py), one action for each of its steps.  The parser is *)
(* the one above; the exporter, the language model and the two notifiers    *)
(* are the environment, which answers each call with one of its outcomes.   *)
(* run.calls lists the calls made to the model and to the notifiers.        *)

\* what _get_csv_data meets, by the branch it takes
Acquisitions(export_first, csv_path) ==
    IF export_first THEN {"exported", "export failed", "SeleniumExportError"}
    ELSE IF csv_path THEN {"file", "not found", "not a file"}
    ELSE {"latest", "no csv found"}

\* _get_csv_data returns a path
path_returned(acquisition) == acquisition \in {"exported", "file", "latest"}

RunFiles ==
    HolderFiles
    \cup { File(Table(COLUMN_MAPPING,
                      << CHOOSE r \in RowChoices : r[L_transaction_id] = T(<<"a", "8">>) >>),
                AllEncodings),
           File(Table(without(COLUMN_MAPPING, {L_amount}),
                      << CHOOSE r \in RowChoices : r[L_transaction_id] = T(<<"a", "1">>) >>),
                AllEncodings),
           File(Table(COLUMN_MAPPING, <<>>), {}) }

RunInit ==
    /\ file \in RunFiles
    /\ _df = None
    /\ _transactions = None
    /\ _parse_errors = <<>>
    /\ read_csv_calls = <<>>
    /\ ret = [op |-> "none", raised |-> FALSE, error |-> NoError, value |-> None]
    /\ dt_in = Unused /\ dt_out = Unused
    /\ am_in = Unused /\ am_out = Unused
    /\ send = Unused
    /\ run \in [ export_first : BOOLEAN, csv_path : BOOLEAN, dry_run : BOOLEAN,
                 has_email_config : BOOLEAN,
                 pc : {"_get_csv_data"}, calls : {<<>>},
                 acquisition : {"pending"}, constructor : {"pending"},
                 analysis : {"pending"}, line_success : {FALSE},
                 result : {"pending"} ]

\* "return x" and an exception that leaves run_analysis
Returns(x) == [run EXCEPT !.pc = "returned", !.result = IF x THEN "True" ELSE "False"]
Propagates == [run EXCEPT !.pc = "returned", !.result = "raised"]

\* lines 100-102
_get_csv_data ==
    /\ run.pc = "_get_csv_data"
    /\ \E acquisition \in Acquisitions(run.export_first, run.csv_path) :
           run' = IF path_returned(acquisition)
                  THEN [run EXCEPT !.pc = "_parse_csv_data", !.acquisition = acquisition]
                  ELSE [Returns(FALSE) EXCEPT !.acquisition = acquisition]
    /\ UNCHANGED <<parserVars, dateVars, amountVars, send>>

\* mutant: the pipeline goes on without a parser
after_parse_regardless(parser) == [run EXCEPT !.pc = "summary"]

\* lines 107-109: "if not parser: return False"
after_parse(parser) ==
    IF parser = None THEN Returns(FALSE) ELSE [run EXCEPT !.pc = "summary"]

\* _parse_csv_data when CSVParser(csv_path) raises
constructor_raises ==
    /\ run' = [after_parse(None) EXCEPT !.constructor = "raises"]
    /\ UNCHANGED parserVars

\* _parse_csv_data when the parser is constructed: parser.parse()
constructor_returns ==
    \E r \in {do_parse(Self, file)} :
        /\ Stored("parse", r)
        /\ run' = [after_parse(IF r.raised THEN None ELSE Some("parser"))
                       EXCEPT !.constructor = "returns"]
        /\ UNCHANGED file

\* lines 107-109
_parse_csv_data ==
    /\ run.pc = "_parse_csv_data"
    /\ constructor_raises \/ constructor_returns
    /\ UNCHANGED <<dateVars, amountVars, send>>

\* lines 112-113: parser.get_summary(), parser.to_analysis_text()
summary_and_text(q, f) == IF q.raised THEN q ELSE do_to_analysis_text(q.self, f)

summary ==
    /\ run.pc = "summary"
    /\ \E r \in {summary_and_text(do_get_summary(Self, file), file)} :
           /\ Stored("to_analysis_text", r)
           /\ run' = IF r.raised THEN Propagates ELSE [run EXCEPT !.pc = "_run_ai_analysis"]
    /\ UNCHANGED <<file, dateVars, amountVars, send>>

\* what _run_ai_analysis meets: no client, or an answer of analyzer.analyze
Analyses == {"no client", "valid", "incomplete", "AIAnalysisError", "Exception"}

\* _run_ai_analysis returns a result
result_returned(analysis) == analysis \in {"valid", "incomplete"}

\* lines 120-122
_run_ai_analysis ==
    /\ run.pc = "_run_ai_analysis"
    /\ \E analysis \in Analyses :
           run' = [(IF result_returned(analysis)
                    THEN [run EXCEPT !.pc = "generate_line_message"]
                    ELSE Returns(FALSE))
                   EXCEPT !.analysis = analysis,
                          !.calls = IF analysis = "no client" THEN run.calls
                                    ELSE Append(run.calls, "analyze")]
    /\ UNCHANGED <<parserVars, dateVars, amountVars, send>>

\* lines 125-132
generate_line_message ==
    /\ run.pc = "generate_line_message"
    /\ run' = IF run.dry_run THEN Returns(TRUE) ELSE [run EXCEPT !.pc = "line.send"]
    /\ UNCHANGED <<parserVars, dateVars, amountVars, send>>

\* what a notifier meets: credentials its constructor refuses, or an answer
\* of its send
Notifications == {"no notifier", "sent", "not sent", "raises"}

notified(calls, name, notification) ==
    IF notification = "no notifier" THEN calls ELSE Append(calls, name)

\* _send_notifications, lines 314-338, and 369-373 without email
line_send ==
    /\ run.pc = "line.send"
    /\ \E notification \in Notifications :
           run' = [(IF run.has_email_config
                    THEN [run EXCEPT !.pc = "email.send"]
                    ELSE Returns(notification = "sent"))
                   EXCEPT !.line_success = (notification = "sent"),
                          !.calls = notified(run.calls, "line.send", notification)]
    /\ UNCHANGED <<parserVars, dateVars, amountVars, send>>

\* _send_notifications, lines 343-373
email_send ==
    /\ run.pc = "email.send"
    /\ \E notification \in Notifications :
           run' = [Returns(run.line_success \/ notification = "sent")
                   EXCEPT !.calls = notified(run.calls, "email.send", notification)]
    /\ UNCHANGED <<parserVars, dateVars, amountVars, send>>

RunNext ==
    \/ _get_csv_data
    \/ _parse_csv_data
    \/ summary
    \/ _run_ai_analysis
    \/ generate_line_message
    \/ line_send
    \/ email_send

SpecRun == RunInit /\ [][RunNext]_vars

\* the acquisition of the CSV file failed
AcquisitionFailed ==
    run.acquisition \in {"export failed", "SeleniumExportError", "not found",
                         "not a file", "no csv found"}

\* the file was acquired and could not be parsed
ParsingFailed ==
    /\ run.constructor # "pending"
    /\ \/ run.constructor = "raises"
       \/ ~Ingestible(file)
       \/ (GoodRows(file) = <<>> /\ BadRows(file) # <<>>)

Sends == {"line.send", "email.send"}

\* C29: when the acquisition of the CSV file or its parsing fails,
\* run_analysis returns False and calls neither the analysis nor a notifier;
\* a notifier is called only after acquisition, parsing and analysis have
\* succeeded, the analysis having been called before it, and never in a dry
\* run.
C29_IngestionFailureStops ==
    run # Unused =>
        /\ (AcquisitionFailed \/ ParsingFailed) =>
               /\ run.pc = "returned"
               /\ run.result = "False"
               /\ run.calls = <<>>
        /\ \A i \in 1..Len(run.calls) :
               run.calls[i] \in Sends =>
                   /\ ~run.dry_run
                   /\ path_returned(run.acquisition)
                   /\ run.constructor = "returns"
                   /\ ~ParsingFailed
                   /\ _transactions # None
                   /\ run.analysis \in {"valid", "incomplete"}
                   /\ i > 1 /\ run.calls[1] = "analyze"
        /\ run.calls # <<>> => (~AcquisitionFailed /\ ~ParsingFailed)

\* the parse raised on a file without a row that parses: False, no call
C29_Witness ==
    /\ run # Unused
    /\ run.pc = "returned"
    /\ run.constructor = "returns"
    /\ Raised("parse")
    /\ ret.error.kind = "Failed to parse any transactions"
    /\ run.result = "False"
    /\ run.calls = <<>>

\* both notifiers were called after the analysis
C29_WitnessSent ==
    /\ run # Unused
    /\ run.result = "True"
    /\ run.calls = <<"analyze", "line.send", "email.send">>

\* a dry run returned True after the analysis alone
C29_WitnessDryRun ==
    /\ run # Unused
    /\ run.dry_run
    /\ run.result = "True"
    /\ run.calls = <<"analyze">>

----------------------------------------------------------------------------
(* LineNotifier._send_with_retry (line_notifier.py), one action for the     *)
(* request of an attempt, one for the sleep after a failure that is retried *)
(* and one for the end of the loop.  The LINE API is the environment: it    *)
(* answers a request with a status or the request raises.                   *)

MAX_RETRIES == 3
RETRY_DELAY_SECONDS == 2
MAX_RETRY_DELAY_SECONDS == 30

MaxRetries == 6

\* what requests.post gives: a response with its status, or an exception
Response(status) == [kind |-> "Response", status |-> status]
Exception(kind) == [kind |-> kind, status |-> 0]

Responses ==
    { Response(200), Response(400), Response(404), Response(429), Response(500),
      Response(503), Exception("Timeout"), Exception("ConnectionError"),
      Exception("RequestException") }

SendResult(success, status_code, retry_count) ==
    [success |-> success, status_code |-> status_code, retry_count |-> retry_count]

SendInit ==
    /\ ParserIdle
    /\ dt_in = Unused /\ dt_out = Unused
    /\ am_in = Unused /\ am_out = Unused
    /\ run = Unused
    /\ send \in [ max_retries : {MAX_RETRIES} \cup 0..MaxRetries,
                  pc : {"for"}, attempt : {0}, delay : {RETRY_DELAY_SECONDS},
                  wait : {0}, responses : {<<>>}, slept : {<<>>},
                  result : {SendResult(FALSE, 0, -1)} ]

min(a, b) == IF a < b THEN a ELSE b

\* mutant: the delay doubles without a cap
doubled_uncapped(delay) == delay * 2

\* min(delay * 2, self.MAX_RETRY_DELAY_SECONDS)
doubled(delay) == min(delay * 2, MAX_RETRY_DELAY_SECONDS)

\* min(delay * 3, self.MAX_RETRY_DELAY_SECONDS)
tripled(delay) == min(delay * 3, MAX_RETRY_DELAY_SECONDS)

returned(result) == [send EXCEPT !.pc = "returned", !.result = result]

\* "time.sleep(wait)" is next, the delay for the next turn is set
sleeping(wait, delay) == [send EXCEPT !.pc = "sleep", !.wait = wait, !.delay = delay]

\* the body of the loop after requests.post gave the response
handled(response) ==
    CASE response.kind = "Response" /\ response.status = 200
             -> returned(SendResult(TRUE, 200, send.attempt))
      [] response.kind = "Response" /\ response.status >= 500
             -> sleeping(send.delay, doubled(send.delay))
      [] response.kind = "Response" /\ response.status = 429
             -> sleeping(tripled(send.delay), tripled(send.delay))
      [] response.kind = "Response" /\ response.status # 200
                                    /\ response.status < 500 /\ response.status # 429
             -> returned(SendResult(FALSE, response.status, send.attempt))
      [] response.kind \in {"Timeout", "ConnectionError"}
             -> sleeping(send.delay, doubled(send.delay))
      [] response.kind = "RequestException"
             -> returned(SendResult(FALSE, 0, send.attempt))

\* one turn of "for attempt in range(self.max_retries)": the request
post ==
    /\ send.pc = "for"
    /\ send.attempt < send.max_retries
    /\ \E response \in Responses :
           send' = [handled(response) EXCEPT !.responses = Append(send.responses, response)]
    /\ UNCHANGED <<parserVars, dateVars, amountVars, run>>

\* time.sleep, then the next turn
sleep ==
    /\ send.pc = "sleep"
    /\ send' = [send EXCEPT !.pc = "for", !.attempt = send.attempt + 1,
                            !.slept = Append(send.slept, send.wait)]
    /\ UNCHANGED <<parserVars, dateVars, amountVars, run>>

\* the loop is over: lines 266-271
exhausted ==
    /\ send.pc = "for"
    /\ send.attempt >= send.max_retries
    /\ send' = returned(SendResult(FALSE, 0, send.max_retries))
    /\ UNCHANGED <<parserVars, dateVars, amountVars, run>>

SendNext ==
    \/ post
    \/ sleep
    \/ exhausted

\* a request ends, by its timeout at the latest, and a sleep ends
SpecSend == SendInit /\ [][SendNext]_vars /\ WF_vars(SendNext)

\* the failures the statement has retried
Retried(response) ==
    \/ response.kind = "Response" /\ response.status >= 500 /\ response.status <= 599
    \/ response.kind = "Response" /\ response.status = 429
    \/ response.kind \in {"Timeout", "ConnectionError"}

Succeeded(response) == response.kind = "Response" /\ response.status = 200

\* what holds of the attempts made so far and of the result
SendBounded ==
    send # Unused =>
        /\ Len(send.responses) <= send.max_retries
        /\ \A i \in 1..Len(send.slept) : send.slept[i] <= 30
        /\ \A i \in 1..(Len(send.responses) - 1) : Retried(send.responses[i])
        /\ \A i \in 1..Len(send.responses) :
               ~Retried(send.responses[i]) =>
                   /\ send.pc = "returned"
                   /\ Len(send.slept) = i - 1
                   /\ send.result.retry_count = i - 1
                   /\ send.result.success = Succeeded(send.responses[i])
        /\ send.pc = "returned" =>
               \/ /\ send.responses # <<>>
                  /\ ~Retried(send.responses[Len(send.responses)])
               \/ /\ Len(send.responses) = send.max_retries
                  /\ \A i \in 1..Len(send.responses) : Retried(send.responses[i])
                  /\ ~send.result.success
                  /\ send.result.retry_count = send.max_retries

\* C30: _send_with_retry returns, after at most max_retries requests: at the
\* first 200 with success and the number of failures before it as
\* retry_count; at the first response that is neither 200, 429 nor 5xx, and
\* at a request error that is neither a timeout nor a connection error,
\* without another request; it goes on after 5xx, 429, a timeout and a
\* connection error only, never sleeps more than 30 seconds, and when
\* max_retries requests have failed so it returns a failure with
\* retry_count = max_retries.
C30_RetryTerminates == []SendBounded /\ <>(send # Unused /\ send.pc = "returned")

\* six requests failed, the last sleeps took 30 seconds, retry_count is 6
C30_Witness ==
    /\ send # Unused
    /\ send.pc = "returned"
    /\ send.max_retries = 6
    /\ Len(send.responses) = 6
    /\ send.slept[5] = 30
    /\ ~send.result.success
    /\ send.result.retry_count = 6

\* a 200 after two failures, and a 400 that ended the call at once
C30_WitnessSuccess ==
    /\ send # Unused
    /\ send.result = SendResult(TRUE, 200, 2)
    /\ send.slept = <<2, 12>>

C30_WitnessClientError ==
    /\ send # Unused
    /\ send.pc = "returned"
    /\ send.max_retries = 3
    /\ send.responses = <<Response(400)>>
    /\ send.result = SendResult(FALSE, 400, 0)

====
